---- MODULE Spec2Model ----
(***************************************************************************)
(* A model of the Anvil search-and-evaluation engine (package blueprint): *)
(* the network graph with its mutation operators and Clone, the forward   *)
(* pass and the metric evaluator, and the search orchestrators.           *)
(*                                                                         *)
(* Go pointers are modelled by a heap: a Blueprint holds, per neuron ID,  *)
(* a reference into `heap`, so that two Blueprints sharing a *Neuron are  *)
(* distinguishable from two Blueprints holding equal copies.              *)
(* Floating point numbers are modelled by small integers; the random     *)
(* draws of the code (rand.Float64, rand.Intn) are draws from small sets. *)
(***************************************************************************)
EXTENDS Integers, Sequences, FiniteSets, TLC

VARIABLES heap, bps, last, nOps,
          orch, pc, wk, chan, connCh, bestAttempt, wg, iter, committed, bestM, snap, panicked

graphVars == <<heap, bps, last, nOps>>

runVars == <<orch, pc, wk, chan, connCh, bestAttempt, wg, iter, committed, bestM, snap, panicked>>
vars == <<heap, bps, last, nOps, orch, pc, wk, chan, connCh, bestAttempt, wg, iter, committed, bestM, snap, panicked>>

(***************************************************************************)
(* Bounds of the model.                                                    *)
(***************************************************************************)
\* number of neuron objects the heap can hold
MaxRef == 18
\* largest neuron ID a graph may reach (insertion stops there)
MaxID == 5
\* number of operations applied in one behaviour of the graph specification
MaxOps == 3

(***************************************************************************)
(* Helpers.                                                                *)
(***************************************************************************)
Range(s) == {s[i] : i \in 1..Len(s)}

SetMax(S) == CHOOSE x \in S : \A y \in S : y <= x
SetMin(S) == CHOOSE x \in S : \A y \in S : x <= y

\* The absent pointer (nil *Blueprint, missing map entry).
Nil == [nil |-> TRUE]

NoRef == 0

NoNeuron == [free |-> TRUE]

Refs == 1..MaxRef

\* Random streams: the k-th draw of a call is Rand(s, k).
Streams == {<<1>>, <<-1>>, <<1, -1>>}

Rand(s, k) == s[((k - 1) % Len(s)) + 1]

\* Perturbation streams of MutateWeights: 0 stands for "this one is not mutated".
MutStreams == {<<0, 1>>, <<1, 0>>}

NoGates == [input |-> <<>>, forget |-> <<>>, output |-> <<>>, cell |-> <<>>]

(***************************************************************************)
(* The data model: Neuron and Blueprint.                                   *)
(***************************************************************************)
\* type Neuron struct: the fields the operators of this model read or write.
Neuron(id, type, value, bias, conns, act, gates) ==
    [ID |-> id, Type |-> type, Value |-> value, Bias |-> bias,
     Connections |-> conns, Activation |-> act, CellState |-> 0,
     GateWeights |-> gates]

\* var scalarActivationFunctions: the names of the activation table
scalarActivationFunctions == {"relu", "sigmoid", "tanh", "leaky_relu", "elu", "linear"}

\* a nil map[string]ActivationFunc
NoMap == {}

\* type Blueprint struct: Neurons (ID -> *Neuron), InputNodes, OutputNodes and
\* ScalarActivationMap (the names it holds).  Blueprint(...) is a struct whose
\* other fields have their zero value: the activation map is nil.
Blueprint(neurons, ins, outs) ==
    [Neurons |-> neurons, InputNodes |-> ins, OutputNodes |-> outs,
     ScalarActivationMap |-> NoMap]

\* bp.InitializeActivationFunctions(): the Blueprint gets the activation table.
InitializeActivationFunctions(bp) ==
    [bp EXCEPT !.ScalarActivationMap = scalarActivationFunctions]

IDs == 1..MaxID

\* bp.Neurons[id] exists
Exists(bp, id) == id \in IDs /\ bp.Neurons[id] # NoRef

NeuronIDs(bp) == {id \in IDs : bp.Neurons[id] # NoRef}

\* the neuron bp.Neurons[id] points to
Deref(h, bp, id) == h[bp.Neurons[id]]

FreeRefs(h) == {r \in Refs : h[r] = NoNeuron}

\* the k-th fresh reference (allocation order is by address)
NthFree(h, k) ==
    LET F == FreeRefs(h)
    IN  CHOOSE r \in F : Cardinality({q \in F : q < r}) = k - 1

\* What an observer of the graph sees: every node with its fields, both ID lists.
View(h, bp) ==
    IF bp = Nil THEN Nil
    ELSE [Neurons |-> [id \in IDs |-> IF Exists(bp, id) THEN Deref(h, bp, id) ELSE NoNeuron],
          InputNodes |-> bp.InputNodes, OutputNodes |-> bp.OutputNodes]

\* The IDs the connections of node id come from.
Sources(h, bp, id) ==
    IF Exists(bp, id)
    THEN {Deref(h, bp, id).Connections[i][1] : i \in 1..Len(Deref(h, bp, id).Connections)}
    ELSE {}


(***************************************************************************)
(* Candidate isolation: Clone and the JSON round trip.                     *)
(***************************************************************************)
\* A float64 that encoding/json refuses to encode (NaN, +Inf, -Inf).
NonFinite == 99

\* json.Marshal(bp) succeeds: no float field of any neuron is NaN or Inf.
Marshalable(h, bp) ==
    \A id \in NeuronIDs(bp) :
        LET n == Deref(h, bp, id)
        IN  /\ n.Value # NonFinite
            /\ n.Bias # NonFinite
            /\ \A i \in 1..Len(n.Connections) : n.Connections[i][2] # NonFinite

\* json.Marshal(bp): the encoded graph holds the value of every field of every
\* node and both ID lists, and no pointer.
Marshal(h, bp) == View(h, bp)

\* A decoder that interns nodes: a node of the data that equals an object
\* already on the heap is not allocated again.
UnmarshalInterned(h, data) ==
    LET ids == {id \in IDs : data.Neurons[id] # NoNeuron}
        old(id) == {r \in Refs : h[r] = data.Neurons[id]}
    IN  [h  |-> h,
         bp |-> Blueprint([id \in IDs |-> IF id \in ids /\ old(id) # {} THEN SetMin(old(id))
                                         ELSE NoRef],
                          data.InputNodes, data.OutputNodes)]

\* json.Unmarshal(data, &newBP) into a fresh Blueprint: every node is a newly
\* allocated object holding the decoded field values.
Unmarshal(h, data) ==
    LET ids == {id \in IDs : data.Neurons[id] # NoNeuron}
        rank(id) == Cardinality({j \in ids : j <= id})
        newRef(id) == NthFree(h, rank(id))
        fresh == {newRef(id) : id \in ids}
        src(r) == CHOOSE id \in ids : newRef(id) = r
    IN  [h  |-> [r \in Refs |-> IF r \in fresh THEN data.Neurons[src(r)] ELSE h[r]],
         bp |-> Blueprint([id \in IDs |-> IF id \in ids THEN newRef(id) ELSE NoRef],
                          data.InputNodes, data.OutputNodes)]

\* A copy that shares the neurons of the original (newBP := *bp).
CloneShallow(h, bp) == [h |-> h, bp |-> bp]

\* func (bp *Blueprint) Clone() *Blueprint: nil when the encoding fails.
Clone(h, bp) ==
    IF ~Marshalable(h, bp) THEN [h |-> h, bp |-> Nil]
    ELSE LET u == Unmarshal(h, Marshal(h, bp))
         IN  [h |-> u.h, bp |-> InitializeActivationFunctions(u.bp)]

\* number of heap objects a copy of bp needs
CloneCost(bp) == Cardinality(NeuronIDs(bp))

\* The variables holding a *Blueprint, in a fixed order.
HandleOrder == <<"bp", "best", "w1", "w2", "g", "c", "k", "p1", "p2", "n1", "n2">>

\* The garbage collector: the objects no Blueprint of `bs` refers to are freed
\* and the live ones are moved to the lowest addresses, in the order in which
\* the handles reach them.  Sharing between Blueprints is kept.
Compact(h, bs) ==
    LET n == Len(HandleOrder) * MaxID
        slots == [k \in 1..n |->
                    LET b == HandleOrder[((k - 1) \div MaxID) + 1]
                        id == ((k - 1) % MaxID) + 1
                    IN  IF b \in DOMAIN bs /\ bs[b] # Nil THEN bs[b].Neurons[id] ELSE NoRef]
        firsts == SelectSeq([k \in 1..n |-> <<k, slots[k]>>],
                            LAMBDA e : e[2] # NoRef /\ \A j \in 1..(e[1] - 1) : slots[j] # e[2])
        canon == [r \in Refs |->
                    IF \E i \in 1..Len(firsts) : firsts[i][2] = r
                    THEN CHOOSE i \in 1..Len(firsts) : firsts[i][2] = r
                    ELSE NoRef]
    IN  [h  |-> [k \in Refs |-> IF k <= Len(firsts) THEN h[firsts[k][2]] ELSE NoNeuron],
         bs |-> [b \in DOMAIN bs |->
                   IF bs[b] = Nil THEN Nil
                   ELSE [bs[b] EXCEPT !.Neurons =
                           [id \in IDs |-> IF bs[b].Neurons[id] = NoRef THEN NoRef
                                           ELSE canon[bs[b].Neurons[id]]]]]]

\* The heap and the handles after a step that leaves them as h and bs.
Store(h, bs) ==
    LET st == Compact(h, bs)
    IN  heap' = st.h /\ bps' = st.bs

(***************************************************************************)
(* Mutation operators.  Each takes the heap and a Blueprint and returns     *)
(* the heap and Blueprint after the call, with err = TRUE when the Go       *)
(* function returns a non-nil error.                                        *)
(***************************************************************************)
Res(h, bp, err) == [h |-> h, bp |-> bp, err |-> err]

\* the eight supported kinds of mutations.go
SupportedTypes == {"dense", "rnn", "lstm", "cnn", "dropout", "batch_norm", "attention", "nca"}

isValidNeuronType(neuronType) == neuronType \in SupportedTypes

\* the seven supported kinds of the rewiring variant
isValidNeuronTypeRewire(neuronType) == neuronType \in (SupportedTypes \ {"nca"})

generateUniqueNeuronID(bp) ==
    IF NeuronIDs(bp) = {} THEN 1 ELSE SetMax(NeuronIDs(bp)) + 1

isInputNode(bp, neuronID) == neuronID \in Range(bp.InputNodes)

isOutputNode(bp, neuronID) == neuronID \in Range(bp.OutputNodes)

\* bp.RandomWeights(size)
RandomWeights(size, s) == [i \in 1..size |-> Rand(s, i)]

RandomActivation(r) == IF r = 1 THEN "relu" ELSE "linear"

\* createNeuron of mutations.go: random value, bias and activation; an lstm gets
\* gate vectors of length 1.
createNeuron(id, neuronType, s) ==
    Neuron(id, neuronType, Rand(s, 1), Rand(s, 2), <<>>,
           IF neuronType = "dropout" THEN "linear" ELSE RandomActivation(Rand(s, 3)),
           IF neuronType = "lstm"
           THEN [input |-> RandomWeights(1, s), forget |-> RandomWeights(1, s),
                 output |-> RandomWeights(1, s), cell |-> RandomWeights(1, s)]
           ELSE NoGates)

\* createNeuron of the rewiring variant: zero value and bias, activation by kind.
createNeuronRewire(id, neuronType) ==
    Neuron(id, neuronType, 0, 0, <<>>,
           CASE neuronType = "dense" -> "relu"
             [] neuronType = "rnn" -> "tanh"
             [] neuronType = "lstm" -> "sigmoid"
             [] neuronType = "cnn" -> "relu"
             [] OTHER -> "linear",
           NoGates)

\* Gate vectors sized by the connections whatever their number.
initializeLSTMWeightsAlways(n, s) ==
    LET k == Len(n.Connections)
    IN  [n EXCEPT !.GateWeights =
            [input |-> RandomWeights(k, s), forget |-> RandomWeights(k, s),
             output |-> RandomWeights(k, s), cell |-> RandomWeights(k, s)]]

\* initializeLSTMWeights: one weight per connection and gate; nothing when the
\* neuron has no connection.
initializeLSTMWeights(n, s) ==
    LET k == Len(n.Connections)
    IN  IF k = 0 THEN n
        ELSE [n EXCEPT !.GateWeights =
                 [input |-> RandomWeights(k, s), forget |-> RandomWeights(k, s),
                  output |-> RandomWeights(k, s), cell |-> RandomWeights(k, s)]]

\* newNeuron.Connections = append(newNeuron.Connections, {inputID, weight}) for
\* every input ID, drawing the weights from position `at` of the stream on.
ConnectInputs(n, ins, s, at) ==
    [n EXCEPT !.Connections =
        @ \o [i \in 1..Len(ins) |-> <<ins[i], Rand(s, at + i)>>]]

\* A loop over bp.OutputNodes that connects nothing.
ConnectNoOutputs(h, bp, newID, s, k) == h

\* The loop over bp.OutputNodes of mutations.go lines 46-58, from position k on.
RECURSIVE ConnectOutputs(_, _, _, _, _)
ConnectOutputs(h, bp, newID, s, k) ==
    IF k > Len(bp.OutputNodes) THEN h
    ELSE LET outputID == bp.OutputNodes[k]
         IN  IF ~Exists(bp, outputID) THEN ConnectOutputs(h, bp, newID, s, k + 1)
             ELSE LET r == bp.Neurons[outputID]
                      h2 == [h EXCEPT ![r].Connections = Append(@, <<newID, Rand(s, k)>>)]
                  IN  ConnectOutputs(h2, bp, newID, s, k + 1)

\* Inserting the neuron without checking its kind first.
InsertUnchecked(h, bp, neuronType, s) ==
    LET newID == generateUniqueNeuronID(bp)
        r == NthFree(h, 1)
        bp2 == [bp EXCEPT !.Neurons[newID] = r]
        h2 == [h EXCEPT ![r] = createNeuron(newID, neuronType, s)]
    IN  Res(h2, bp2, ~isValidNeuronType(neuronType))

\* func (bp *Blueprint) InsertNeuronOfTypeBetweenInputsAndOutputs (mutations.go)
InsertNeuronOfTypeBetweenInputsAndOutputs(h, bp, neuronType, s) ==
    IF ~isValidNeuronType(neuronType) THEN Res(h, bp, TRUE)
    ELSE LET newID == generateUniqueNeuronID(bp)
             r == NthFree(h, 1)
             bp2 == [bp EXCEPT !.Neurons[newID] = r]
             h2 == [h EXCEPT ![r] =
                        ConnectInputs(createNeuron(newID, neuronType, s), bp.InputNodes, s, 3)]
             h3 == ConnectOutputs(h2, bp2, newID, s, 1)
             h4 == IF neuronType = "lstm"
                   THEN [h3 EXCEPT ![r] = initializeLSTMWeights(@, s)]
                   ELSE h3
         IN  Res(h4, bp2, FALSE)

\* The loop over bp.OutputNodes of the rewiring variant (part_000 lines 42-81):
\* drop the output's connections from input nodes, connect every input to the
\* new neuron, connect the new neuron to the output.
RECURSIVE RewireOutputs(_, _, _, _, _)
RewireOutputs(h, bp, newID, s, k) ==
    IF k > Len(bp.OutputNodes) THEN h
    ELSE LET outputID == bp.OutputNodes[k]
         IN  IF ~Exists(bp, outputID) THEN RewireOutputs(h, bp, newID, s, k + 1)
             ELSE LET ro == bp.Neurons[outputID]
                      rn == bp.Neurons[newID]
                      h2 == [h EXCEPT ![ro].Connections =
                                SelectSeq(@, LAMBDA c : ~isInputNode(bp, c[1]))]
                      h3 == [h2 EXCEPT ![rn] = ConnectInputs(@, bp.InputNodes, s, 0)]
                      h4 == [h3 EXCEPT ![ro].Connections = Append(@, <<newID, Rand(s, k)>>)]
                  IN  RewireOutputs(h4, bp, newID, s, k + 1)

\* func (bp *Blueprint) InsertNeuronOfTypeBetweenInputsAndOutputs (rewiring variant)
InsertNeuronRewire(h, bp, neuronType, s) ==
    IF ~isValidNeuronTypeRewire(neuronType) THEN Res(h, bp, TRUE)
    ELSE LET newID == generateUniqueNeuronID(bp)
             r == NthFree(h, 1)
             bp2 == [bp EXCEPT !.Neurons[newID] = r]
             h2 == [h EXCEPT ![r] = createNeuronRewire(newID, neuronType)]
             h3 == RewireOutputs(h2, bp2, newID, s, 1)
             h4 == IF neuronType = "lstm"
                   THEN [h3 EXCEPT ![r] = initializeLSTMWeights(@, s)]
                   ELSE h3
         IN  Res(h4, bp2, FALSE)

\* func (bp *Blueprint) connectionExists(sourceID, targetID int) bool
connectionExists(h, bp, sourceID, targetID) ==
    Exists(bp, targetID) /\ sourceID \in Sources(h, bp, targetID)

\* func (bp *Blueprint) addConnection(sourceID, targetID int, weight float64) error
addConnection(h, bp, sourceID, targetID, weight) ==
    IF ~Exists(bp, targetID) THEN Res(h, bp, TRUE)
    ELSE Res([h EXCEPT ![bp.Neurons[targetID]].Connections = Append(@, <<sourceID, weight>>)],
             bp, FALSE)

\* A removal that empties the connection list of the target.
removeAllConnections(h, bp, sourceID, targetID) ==
    IF ~Exists(bp, targetID) THEN Res(h, bp, FALSE)
    ELSE Res([h EXCEPT ![bp.Neurons[targetID]].Connections = <<>>], bp, FALSE)

\* func (bp *Blueprint) removeConnection(sourceID, targetID int)
removeConnection(h, bp, sourceID, targetID) ==
    IF ~Exists(bp, targetID) THEN Res(h, bp, FALSE)
    ELSE Res([h EXCEPT ![bp.Neurons[targetID]].Connections =
                  SelectSeq(@, LAMBDA c : c[1] # sourceID)],
             bp, FALSE)

\* A removal that deletes the node from the table and leaves the connections
\* of the other nodes alone.
RemoveFromTableOnly(h, bp, neuronID) ==
    Res(h, [bp EXCEPT !.Neurons[neuronID] = NoRef], FALSE)

\* func (bp *Blueprint) RemoveNeuron(neuronID int)
RemoveNeuron(h, bp, neuronID) ==
    LET bp2 == [bp EXCEPT !.Neurons[neuronID] = NoRef]
        kept == {bp2.Neurons[id] : id \in NeuronIDs(bp2)}
    IN  Res([r \in Refs |->
                IF r \in kept
                THEN [h[r] EXCEPT !.Connections = SelectSeq(@, LAMBDA c : c[1] # neuronID)]
                ELSE h[r]],
            bp2, FALSE)

\* json.Marshal(neuron) succeeds.
NeuronMarshalable(n) ==
    /\ n.Value # NonFinite
    /\ n.Bias # NonFinite
    /\ \A i \in 1..Len(n.Connections) : n.Connections[i][2] # NonFinite

\* The nodes of `child` that Crossover replaces: those drawn (pick) that the
\* other parent has too and whose encoding succeeds.
Taken(h, child, other, pick) ==
    {id \in NeuronIDs(child) \cap pick :
        Exists(other, id) /\ NeuronMarshalable(Deref(h, other, id))}

\* A crossover that stores the other parent's *Neuron in the child.
CrossoverByReference(h, bp, other, pick) ==
    LET c == Clone(h, bp)
    IN  IF c.bp = Nil THEN Res(h, Nil, TRUE)
        ELSE Res(c.h,
                 [c.bp EXCEPT !.Neurons =
                     [id \in IDs |-> IF id \in Taken(h, c.bp, other, pick)
                                     THEN other.Neurons[id] ELSE c.bp.Neurons[id]]],
                 FALSE)

\* evolutionary.go lines 189-210 for the IDs of `ids`: the other parent's node
\* is encoded and decoded into a new Neuron object, which replaces the child's
\* node of that ID (the replaced object is unreachable from then on).
RECURSIVE TakeCopies(_, _, _, _)
TakeCopies(h, child, other, ids) ==
    IF ids = {} THEN Res(h, child, FALSE)
    ELSE LET neuronID == SetMin(ids)
             newNeuron == NthFree(h, 1)
             h2 == [h EXCEPT ![newNeuron] = Deref(h, other, neuronID),
                             ![child.Neurons[neuronID]] = NoNeuron]
         IN  TakeCopies(h2, [child EXCEPT !.Neurons[neuronID] = newNeuron], other,
                        ids \ {neuronID})

\* func (bp *Blueprint) Crossover(other *Blueprint) *Blueprint: `pick` holds the
\* IDs for which rand.Float64() < 0.5.  The clone is used without a nil check:
\* err tells that the call panicked.
Crossover(h, bp, other, pick) ==
    LET c == Clone(h, bp)
    IN  IF c.bp = Nil THEN Res(h, Nil, TRUE)
        ELSE TakeCopies(c.h, c.bp, other, Taken(h, c.bp, other, pick))

\* The position in the stream of the k-th weight of neuron id (draws are made
\* neuron after neuron).
DrawAt(id, k) == (id - 1) * 4 + k

\* func (bp *Blueprint) MutateWeights(): adds a perturbation to the bias, to
\* connection weights and to lstm gate weights of the non-input neurons; the
\* stream says which ones are hit (0: left alone).
MutateWeights(h, bp, s) ==
    LET mine == {bp.Neurons[id] : id \in NeuronIDs(bp)}
        mut(n) ==
            IF n.Type = "input" THEN n
            ELSE [n EXCEPT
                    !.Bias = @ + Rand(s, DrawAt(n.ID, 1)),
                    !.Connections = [i \in 1..Len(@) |->
                        <<@[i][1], @[i][2] + Rand(s, DrawAt(n.ID, 1 + i))>>],
                    !.GateWeights =
                        IF n.Type = "lstm"
                        THEN [g \in DOMAIN @ |->
                                [i \in 1..Len(@[g]) |-> @[g][i] + Rand(s, DrawAt(n.ID, i))]]
                        ELSE @]
    IN  Res([r \in Refs |-> IF r \in mine THEN mut(h[r]) ELSE h[r]], bp, FALSE)

\* func (bp *Blueprint) InsertNeuronWithRandomConnections(neuronType string) error:
\* targets are the first one or two IDs of the shuffled ID list (taken after the
\* new neuron was added to the table), out the index drawn in OutputNodes.
InsertNeuronWithRandomConnections(h, bp, neuronType, targets, out, s) ==
    IF ~isValidNeuronType(neuronType) THEN Res(h, bp, TRUE)
    ELSE LET newID == generateUniqueNeuronID(bp)
             r == NthFree(h, 1)
             bp2 == [bp EXCEPT !.Neurons[newID] = r]
             h2 == [h EXCEPT ![r] =
                       [createNeuron(newID, neuronType, s) EXCEPT !.Connections =
                           [i \in 1..Len(targets) |-> <<targets[i], Rand(s, 3 + i)>>]]]
             h3 == IF Len(bp.OutputNodes) > 0 /\ Exists(bp2, bp.OutputNodes[out])
                   THEN [h2 EXCEPT ![bp2.Neurons[bp.OutputNodes[out]]].Connections =
                            Append(@, <<newID, Rand(s, 6)>>)]
                   ELSE h2
         IN  Res(h3, bp2, FALSE)

(***************************************************************************)
(* SpecGraph: a caller holding a graph g and a copy c = g.Clone(), calling  *)
(* the mutation operators on either.                                        *)
(***************************************************************************)
\* The graphs a caller starts from: ID lists, the IDs present in the node
\* table, and whether the value of node 3 is not a finite number.
InitShapes ==
    {[ins |-> i, outs |-> o, present |-> Range(i) \cup p, nan |-> FALSE] :
        i \in {<<>>, <<1>>, <<1, 2>>}, o \in {<<3>>, <<3, 4>>}, p \in {{3}, {3, 4}}}
    \cup {[ins |-> <<1>>, outs |-> <<3>>, present |-> {1, 3}, nan |-> TRUE]}

\* The heap and Blueprint of a shape: inputs of type "input", the others dense
\* nodes fed by every input with weight 1.
ShapeHeap(sh) ==
    LET ids == sh.present
        rank(id) == Cardinality({j \in ids : j <= id})
        node(id) == IF id \in Range(sh.ins)
                    THEN Neuron(id, "input", 0, 0, <<>>, "linear", NoGates)
                    ELSE Neuron(id, "dense", 0, IF sh.nan /\ id = 3 THEN NonFinite ELSE 0,
                                [k \in 1..Len(sh.ins) |-> <<sh.ins[k], 1>>], "linear", NoGates)
    IN  [r \in Refs |-> IF \E id \in ids : rank(id) = r
                        THEN node(CHOOSE id \in ids : rank(id) = r)
                        ELSE NoNeuron]

ShapeBlueprint(sh) ==
    LET ids == sh.present
        rank(id) == Cardinality({j \in ids : j <= id})
    IN  InitializeActivationFunctions(
            Blueprint([id \in IDs |-> IF id \in ids THEN rank(id) ELSE NoRef], sh.ins, sh.outs))

Handles == {"g", "c", "k"}

\* the draws of Crossover: only node 3 is taken from the other parent, or all
Picks == {{3}, IDs}
Kinds == {"dense", "lstm", "nca", "bogus"}
InsertStreams == {<<1, -1>>}
ConnPairs == {<<1, 3>>, <<3, 1>>, <<3, 5>>, <<2, 4>>}
\* the kinds and the one or two connection sources drawn for
\* InsertNeuronWithRandomConnections
RandomKinds == {"lstm", "bogus"}
RandomTargets == {<<3>>, <<1, 3>>}

Last(op, on, err, kind, target) ==
    [op |-> op, on |-> on, err |-> err, kind |-> kind, target |-> target, source |-> 0]

\* No search is running.
RunIdle ==
    /\ orch = "none" /\ pc = "idle" /\ wk = <<>> /\ chan = <<>> /\ wg = 0
    /\ connCh = <<>> /\ bestAttempt = Nil
    /\ iter = 0 /\ committed = 0 /\ bestM = <<>> /\ snap = Nil /\ panicked = FALSE

InitGraph ==
    /\ \E sh \in InitShapes :
          /\ heap = ShapeHeap(sh)
          /\ bps = [g |-> ShapeBlueprint(sh), c |-> Nil, k |-> Nil]
    /\ last = Last("new", "g", FALSE, "", 0)
    /\ nOps = 0
    /\ RunIdle

\* The effect of a call, with the arguments sourceID and target, on the graph
\* of handle x that returned res.
ApplyFrom(x, res, op, kind, target, sourceID) ==
    /\ ~panicked
    /\ Store(res.h, [bps EXCEPT ![x] = res.bp])
    /\ last' = [Last(op, x, res.err, kind, target) EXCEPT !.source = sourceID]
    /\ nOps' = nOps + 1
    /\ UNCHANGED runVars

\* The effect of a call on the graph of handle x that returned res.
Apply(x, res, op, kind, target) ==
    /\ ~panicked
    /\ Store(res.h, [bps EXCEPT ![x] = res.bp])
    /\ last' = Last(op, x, res.err, kind, target)
    /\ nOps' = nOps + 1
    /\ UNCHANGED runVars

\* c := g.Clone()
DoClone ==
    /\ nOps < MaxOps /\ ~panicked
    /\ LET base == Compact(heap, [bps EXCEPT !.c = Nil])
           res == Clone(base.h, base.bs.g)
       IN  /\ Store(res.h, [base.bs EXCEPT !.c = res.bp])
           /\ last' = Last("clone", "g", res.bp = Nil, "", 0)
           /\ nOps' = nOps + 1
           /\ UNCHANGED runVars

\* k := x.Crossover(y)
DoCrossover(x, y, pick) ==
    /\ nOps < MaxOps /\ ~panicked
    /\ bps[x] # Nil /\ bps[y] # Nil
    /\ LET base == Compact(heap, [bps EXCEPT !.k = Nil])
           res == Crossover(base.h, base.bs[x], base.bs[y], pick)
       IN  /\ Store(res.h, [base.bs EXCEPT !.k = res.bp])
           /\ last' = Last("Crossover", x, res.err, y, 0)
           /\ panicked' = res.err
    /\ nOps' = nOps + 1
    /\ UNCHANGED <<orch, pc, wk, chan, connCh, bestAttempt, wg, iter, committed, bestM, snap>>

DoInsert(x, kind, s) ==
    /\ nOps < MaxOps /\ bps[x] # Nil
    /\ generateUniqueNeuronID(bps[x]) <= MaxID
    /\ Apply(x, InsertNeuronOfTypeBetweenInputsAndOutputs(heap, bps[x], kind, s),
             "insert", kind, 0)

DoInsertRewire(x, kind, s) ==
    /\ nOps < MaxOps /\ bps[x] # Nil
    /\ generateUniqueNeuronID(bps[x]) <= MaxID
    /\ Apply(x, InsertNeuronRewire(heap, bps[x], kind, s), "insertRewire", kind, 0)

\* x.InsertNeuronWithRandomConnections(kind): targets are the first IDs of the
\* shuffled ID list, which holds the new ID too.
DoInsertRandom(x, kind, targets, s) ==
    /\ nOps < MaxOps /\ bps[x] # Nil
    /\ generateUniqueNeuronID(bps[x]) <= MaxID
    /\ Range(targets) \subseteq NeuronIDs(bps[x]) \cup {generateUniqueNeuronID(bps[x])}
    /\ Apply(x, InsertNeuronWithRandomConnections(heap, bps[x], kind, targets, 1, s),
             "insertRandom", kind, 0)

DoAddConnection(x, sourceID, targetID) ==
    /\ nOps < MaxOps /\ bps[x] # Nil
    /\ ApplyFrom(x, addConnection(heap, bps[x], sourceID, targetID, 2), "addConnection", "",
                 targetID, sourceID)

DoRemoveConnection(x, sourceID, targetID) ==
    /\ nOps < MaxOps /\ bps[x] # Nil
    /\ ApplyFrom(x, removeConnection(heap, bps[x], sourceID, targetID), "removeConnection", "",
                 targetID, sourceID)

DoRemoveNeuron(x, neuronID) ==
    /\ nOps < MaxOps /\ bps[x] # Nil
    /\ Apply(x, RemoveNeuron(heap, bps[x], neuronID), "RemoveNeuron", "", neuronID)

DoMutateWeights(x, s) ==
    /\ nOps < MaxOps /\ bps[x] # Nil
    /\ Apply(x, MutateWeights(heap, bps[x], s), "MutateWeights", "", 0)

\* The IDs the depth-first search of ValidateConnections marks: it starts at
\* every ID of InputNodes and goes from a node to conn[0] of its connections.
RECURSIVE Marked(_, _, _)
Marked(h, bp, S) ==
    LET T == S \cup UNION {Sources(h, bp, id) : id \in S}
    IN  IF T = S THEN S ELSE Marked(h, bp, T)

\* utils.go ValidateConnections: err tells that the call returned false; the
\* search reads bp.Neurons[id].Connections of every ID it reaches, a nil
\* pointer dereference when the ID is not in the node table.
ValidateConnections(h, bp) ==
    LET visited == Marked(h, bp, Range(bp.InputNodes))
    IN  IF \E id \in visited : ~Exists(bp, id) THEN [err |-> TRUE, crashed |-> TRUE]
        ELSE [err |-> \E k \in 1..Len(bp.OutputNodes) : bp.OutputNodes[k] \notin visited,
              crashed |-> FALSE]

\* ok := x.ValidateConnections()
DoValidateConnections(x) ==
    /\ nOps < MaxOps /\ ~panicked
    /\ bps[x] # Nil
    /\ LET res == ValidateConnections(heap, bps[x])
       IN  /\ last' = Last("ValidateConnections", x, res.err, IF res.crashed THEN "panic" ELSE "", 0)
           /\ panicked' = res.crashed
    /\ nOps' = nOps + 1
    /\ UNCHANGED <<heap, bps, orch, pc, wk, chan, connCh, bestAttempt, wg, iter, committed, bestM, snap>>

NextGraph ==
    \/ DoClone
    \/ \E x \in {"g", "c"}, y \in {"g", "c"}, pick \in Picks : DoCrossover(x, y, pick)
    \/ \E x \in Handles, kind \in Kinds, s \in InsertStreams : DoInsert(x, kind, s)
    \/ \E x \in Handles, kind \in Kinds, s \in InsertStreams : DoInsertRewire(x, kind, s)
    \/ \E x \in Handles, kind \in RandomKinds, targets \in RandomTargets, s \in InsertStreams :
          DoInsertRandom(x, kind, targets, s)
    \/ \E x \in Handles, p \in ConnPairs : DoAddConnection(x, p[1], p[2])
    \/ \E x \in Handles, p \in ConnPairs : DoRemoveConnection(x, p[1], p[2])
    \/ \E x \in Handles, id \in IDs : DoRemoveNeuron(x, id)
    \/ \E x \in Handles, s \in MutStreams : DoMutateWeights(x, s)
    \/ \E x \in Handles : DoValidateConnections(x)

SpecGraph == InitGraph /\ [][NextGraph]_vars

(***************************************************************************)
(* Properties of SpecGraph.                                                 *)
(***************************************************************************)
Mutations ==
    {"insert", "insertRewire", "insertRandom", "addConnection", "removeConnection",
     "RemoveNeuron", "MutateWeights"}

OtherHandle(x) == IF x = "g" THEN "c" ELSE "g"

\* C1: once c is the result of g.Clone(), a mutation applied through one of the
\* two handles leaves everything observable through the other handle (node
\* table, every field of every node, both ID lists) as it was.
C1_CloneIndependent ==
    [][last'.op \in Mutations =>
          View(heap', bps'[OtherHandle(last'.on)]) = View(heap, bps[OtherHandle(last'.on)])]_vars

\* C1 witness: a mutation has just succeeded on the copy and the copy now
\* differs from the original it was cloned from.
C1_Witness ==
    /\ last.op \in Mutations /\ last.on = "c" /\ ~last.err
    /\ bps.c # Nil
    /\ View(heap, bps.c) # View(heap, bps.g)

\* The IDs reached from the set S by following connections backwards.
RECURSIVE BackClosure(_, _, _)
BackClosure(h, bp, S) ==
    LET T == S \cup UNION {Sources(h, bp, id) : id \in S}
    IN  IF T = S THEN S ELSE BackClosure(h, bp, T)

\* Node id has a path of at least one connection back to an ID of InputNodes.
HasPathToInput(h, bp, id) ==
    BackClosure(h, bp, Sources(h, bp, id)) \cap Range(bp.InputNodes) # {}

InsertSucceeded == last.op \in {"insert", "insertRewire"} /\ ~last.err

\* C7 as stated: after a successful InsertNeuronOfTypeBetweenInputsAndOutputs
\* on any graph, every ID of OutputNodes has a path back to an ID of InputNodes.
C7_Original ==
    InsertSucceeded =>
        \A k \in 1..Len(bps[last.on].OutputNodes) :
            HasPathToInput(heap, bps[last.on], bps[last.on].OutputNodes[k])

\* C7 amended: after a successful insertion on a graph that lists at least one
\* input node, every ID of OutputNodes that is present in the node table has a
\* path back to an ID of InputNodes.
C7_ReachableOutputs ==
    (InsertSucceeded /\ bps[last.on].InputNodes # <<>>) =>
        \A k \in 1..Len(bps[last.on].OutputNodes) :
            Exists(bps[last.on], bps[last.on].OutputNodes[k]) =>
                HasPathToInput(heap, bps[last.on], bps[last.on].OutputNodes[k])

\* C7 witness: an insertion succeeded on a graph with inputs whose output 3 is
\* reached from an input only through the inserted node.
C7_Witness ==
    /\ last.op = "insert" /\ ~last.err
    /\ bps[last.on].InputNodes # <<>>
    /\ Exists(bps[last.on], 3)
    /\ Sources(heap, bps[last.on], 3) \cap Range(bps[last.on].InputNodes) = {}
    /\ HasPathToInput(heap, bps[last.on], 3)

\* The call recorded in last' is an insertion of an unsupported kind or an
\* addConnection whose target is not in the node table.
RejectedCall ==
    \/ last'.op = "insert" /\ ~isValidNeuronType(last'.kind)
    \/ last'.op = "insertRewire" /\ ~isValidNeuronTypeRewire(last'.kind)
    \/ last'.op = "addConnection" /\ ~Exists(bps[last'.on], last'.target)

\* C8: an insertion with an unsupported kind and an addConnection with a
\* missing target each return an error and leave the graph exactly as it was.
C8_RejectedUnchanged ==
    [][RejectedCall =>
          /\ last'.err
          /\ \A x \in Handles : View(heap', bps'[x]) = View(heap, bps[x])]_vars

\* C8 witness: an insertion of the unsupported kind "bogus" has just returned
\* an error.
C8_Witness ==
    /\ last.op = "insert" /\ last.kind = "bogus" /\ last.err

\* C13: once k is the child of a Crossover of two parents, a mutation of k
\* (weights, architecture, connections) changes no field of any node of either
\* parent, and neither does the Crossover call itself.
C13_CrossoverIsolatesParents ==
    [][((last'.op \in Mutations /\ last'.on = "k") \/ last'.op = "Crossover") =>
          /\ View(heap', bps'.g) = View(heap, bps.g)
          /\ View(heap', bps'.c) = View(heap, bps.c)]_vars

\* The child of a Crossover has just been mutated and now differs from both
\* parents, g and its clone c.
C13_Witness ==
    /\ last.op \in Mutations /\ last.on = "k" /\ ~last.err
    /\ bps.k # Nil /\ bps.c # Nil
    /\ View(heap, bps.k) # View(heap, bps.g)
    /\ View(heap, bps.k) # View(heap, bps.c)

\* C16: removeConnection(source, target) on a target that has no connection
\* from source, or that is not in the node table, changes nothing: every
\* node keeps its connection list (count, order, weights) and its fields.
C16_RemoveAbsentIsNoOp ==
    [][(/\ last'.op = "removeConnection"
        /\ ~connectionExists(heap, bps[last'.on], last'.source, last'.target))
          => \A x \in Handles : View(heap', bps'[x]) = View(heap, bps[x])]_vars

\* The first call on a graph with the single input 1 was
\* removeConnection(2, 4): node 4 holds a connection, from node 1, and none
\* from node 2.
C16_Witness ==
    /\ last.op = "removeConnection" /\ last.source = 2 /\ last.target = 4
    /\ nOps = 1
    /\ bps[last.on].InputNodes = <<1>>
    /\ Exists(bps[last.on], 4)
    /\ Sources(heap, bps[last.on], 4) = {1}

\* The connection list `conns` without the connections that come from id.
Without(conns, id) == SelectSeq(conns, LAMBDA c : c[1] # id)

\* C12: RemoveNeuron(id) deletes node id from the node table, and each node that
\* remains keeps exactly its connections from other sources, with their
\* weights and in their order, and none from id.
C12_RemoveStripsConnections ==
    [][last'.op = "RemoveNeuron" =>
          LET x == last'.on
              id == last'.target
          IN  /\ ~Exists(bps'[x], id)
              /\ NeuronIDs(bps'[x]) = NeuronIDs(bps[x]) \ {id}
              /\ \A j \in NeuronIDs(bps'[x]) :
                    /\ id \notin Sources(heap', bps'[x], j)
                    /\ Deref(heap', bps'[x], j).Connections =
                           Without(Deref(heap, bps[x], j).Connections, id)]_vars

\* Input node 1 of a graph with the inputs 1 and 2 has just been removed: node
\* 3, which was fed by both, is left with its connection from node 2.
C12_Witness ==
    /\ last.op = "RemoveNeuron" /\ last.target = 1
    /\ bps[last.on].InputNodes = <<1, 2>>
    /\ ~Exists(bps[last.on], 1)
    /\ Exists(bps[last.on], 3)
    /\ Deref(heap, bps[last.on], 3).Connections = <<<<2, 1>>>>

(***************************************************************************)
(* Evaluation as the searches see it.  The sessions are an input of every   *)
(* search; the metric triple <<exact, generous, forgiveness>> an evaluation *)
(* returns is drawn from Outcomes, and the values the forward pass writes   *)
(* into the evaluated graph from EvalValues.                                *)
(***************************************************************************)
Outcomes ==
    {<<50, 50, 50>>, <<50, 60, 40>>, <<50, 40, 60>>, <<100, 100, 100>>, <<40, 60, 50>>}

EvalValues == {1}

\* Forward writes the value of every node it processes.
Evaluated(h, bp, v) ==
    LET mine == {bp.Neurons[id] : id \in NeuronIDs(bp)}
    IN  [r \in Refs |-> IF r \in mine /\ h[r].Type # "input"
                        THEN [h[r] EXCEPT !.Value = v] ELSE h[r]]

\* Accepting every candidate.
AlwaysAccept(m, c) == TRUE

\* exact > best || generous > best || forgiveness > best
AnyImproves(m, c) == m[1] > c[1] \/ m[2] > c[2] \/ m[3] > c[3]

\* Accepting a candidate whose exact accuracy is not lower.
ExactNotLower(m, c) == m[1] >= c[1]

\* exact > best || (exact == best && (generous > best || forgiveness > best))
Better(m, c) == m[1] > c[1] \/ (m[1] = c[1] /\ (m[2] > c[2] \/ m[3] > c[3]))

\* The (neuron, connection index) pairs HillClimbWeightUpdate can pick: a
\* non-input neuron with at least one connection.
Eligible(h, bp) ==
    {<<id, k>> \in NeuronIDs(bp) \X (1..MaxID) :
        ~isInputNode(bp, id) /\ k <= Len(Deref(h, bp, id).Connections)}

\* const maxWeightChange = 0.1, in hundredths
MaxWeightChange == 10

\* the values of perturbation: (rand.Float64()*2 - 1) * maxWeightChange
ClimbDeltas == {-MaxWeightChange, 0, MaxWeightChange}

\* A perturbation that changes the bias of the neuron as well.
PerturbWithBias(h, bp, id, k, delta) ==
    [h EXCEPT ![bp.Neurons[id]].Connections[k][2] = @ + delta, ![bp.Neurons[id]].Bias = @ + delta]

\* unnamed/part_001 line 49: targetNeuron.Connections[connIndex][1] += perturbation
Perturb(h, bp, id, k, delta) ==
    [h EXCEPT ![bp.Neurons[id]].Connections[k][2] = @ + delta]

\* func (bp *Blueprint) HillClimbWeightUpdate: perturb connection k of neuron
\* id in a clone, evaluate the clone (candM) and bp (curM), and replace *bp by
\* the clone when any metric is higher.
HillClimbWeightUpdate(h, bp, id, k, delta, candM, curM, v) ==
    LET c == Clone(h, bp)
    IN  IF c.bp = Nil THEN [h |-> h, bp |-> bp, improved |-> FALSE]
        ELSE LET h2 == Perturb(c.h, c.bp, id, k, delta)
                 h3 == Evaluated(Evaluated(h2, c.bp, v), bp, v)
             IN  IF AnyImproves(candM, curM)
                 THEN [h |-> h3, bp |-> c.bp, improved |-> TRUE]
                 ELSE [h |-> h3, bp |-> bp, improved |-> FALSE]

HasRoom(h, n) == Cardinality(FreeRefs(h)) >= n

\* The pairs getRandomConnectionPair and the generator of TryAddConnections can
\* yield: two different nodes of the table with no connection from the first
\* to the second.
NewPairs(h, bp) ==
    {p \in NeuronIDs(bp) \X NeuronIDs(bp) : p[1] # p[2] /\ ~connectionExists(h, bp, p[1], p[2])}

\* The pairs getRandomExistingConnectionPair can yield: <<ID of the neuron that
\* holds the connection, ID the connection comes from>>.
ExistingPairs(h, bp) ==
    {p \in NeuronIDs(bp) \X IDs : p[2] \in Sources(h, bp, p[1])}

\* The IDs getRandomHiddenNeuron can yield.
HiddenNeurons(h, bp) ==
    {id \in NeuronIDs(bp) : Deref(h, bp, id).Type \notin {"input", "output"}}

\* func (bp *Blueprint) getConnectionWeight(sourceID, targetID int) float64
getConnectionWeight(h, bp, sourceID, targetID) ==
    IF ~Exists(bp, sourceID) THEN 0
    ELSE LET conns == Deref(h, bp, sourceID).Connections
             hits == {i \in 1..Len(conns) : conns[i][1] = targetID}
         IN  IF hits = {} THEN 0 ELSE conns[SetMin(hits)][2]

\* func (bp *Blueprint) modifyActivationFunction(neuronID int, newActivation string) error
modifyActivationFunction(h, bp, neuronID, newActivation) ==
    IF ~Exists(bp, neuronID) THEN Res(h, bp, TRUE)
    ELSE Res([h EXCEPT ![bp.Neurons[neuronID]].Activation = newActivation], bp, FALSE)

\* func calculateImprovement: the sum of the metrics' increases.
calculateImprovement(m, initial) ==
    (IF m[1] > initial[1] THEN m[1] - initial[1] ELSE 0)
    + (IF m[2] > initial[2] THEN m[2] - initial[2] ELSE 0)
    + (IF m[3] > initial[3] THEN m[3] - initial[3] ELSE 0)

\* bp.DeserializesFromJSON(data) on an existing Blueprint: json.Unmarshal
\* allocates a new node for every key of the encoded table, keeps the entries
\* of bp.Neurons whose key is not in the data, and replaces both ID lists.
UnmarshalInto(h, bp, data) ==
    LET u == Unmarshal(h, data)
    IN  [h  |-> u.h,
         bp |-> [bp EXCEPT !.Neurons = [id \in IDs |-> IF u.bp.Neurons[id] # NoRef
                                                       THEN u.bp.Neurons[id]
                                                       ELSE bp.Neurons[id]],
                           !.InputNodes = data.InputNodes,
                           !.OutputNodes = data.OutputNodes]]

(***************************************************************************)
(* SpecPar: the searches that run a round of workers.                       *)
(***************************************************************************)
MaxIter == 2

Workers == {"w1", "w2"}

\* the neuronTypes argument of the search
NasKinds == {"dense", "bogus"}

Result(m, w) == [m |-> m, w |-> w]

\* The loop over resultsChan (nas.go lines 508-521) from position k on: acc is
\* <<improved, bestIterationCandidate, bestIt metrics>>.
RECURSIVE ReduceResults(_, _, _, _)
ReduceResults(results, k, best, acc) ==
    IF k > Len(results) THEN acc
    ELSE LET res == results[k]
         IN  IF Better(res.m, best) /\ Better(res.m, acc.m)
             THEN ReduceResults(results, k + 1, best, [improved |-> TRUE, w |-> res.w, m |-> res.m])
             ELSE ReduceResults(results, k + 1, best, acc)

SelectBest(results, best) ==
    ReduceResults(results, 1, best, [improved |-> FALSE, w |-> "", m |-> best])

\* A Wait that returns while workers are still running.
WaitReturnsEarly(n) == TRUE

\* wg.Wait() returns
WaitReturns(n) == n = 0

ParShape == [ins |-> <<1>>, outs |-> <<3>>, present |-> {1, 3}, nan |-> FALSE]

NoWorker == [pc |-> "none", round |-> 0, arg |-> <<>>]

TryShape == [ins |-> <<1, 2>>, outs |-> <<3>>, present |-> {1, 2, 3}, nan |-> FALSE]

\* NewBlueprint, AddOutputNodes({1, 3}): no input node, no connection.
BareShape == [ins |-> <<>>, outs |-> <<1, 3>>, present |-> {1, 3}, nan |-> FALSE]

InitPar ==
    /\ \E o \in {"ParallelNAS", "TryAdd", "LearnOne", "LearnOne2"} :
          /\ orch = o
          /\ \E sh \in IF o = "TryAdd" THEN {TryShape, ParShape}
                        ELSE {ParShape, [ParShape EXCEPT !.nan = TRUE]} :
                /\ heap = ShapeHeap(sh)
                /\ bps = [bp |-> ShapeBlueprint(sh), best |-> Nil, w1 |-> Nil, w2 |-> Nil]
    /\ last = Last("new", "bp", FALSE, "", 0)
    /\ nOps = 0
    /\ pc = "start"
    /\ wk = [w \in Workers |-> NoWorker]
    /\ chan = <<>> /\ wg = 0 /\ iter = 0 /\ committed = 0
    /\ connCh = <<>> /\ bestAttempt = Nil
    /\ bestM = <<>> /\ snap = Nil /\ panicked = FALSE

\* nas.go lines 387-394: clone the caller's graph, return when that fails,
\* evaluate the clone.
ParStart ==
    /\ orch = "ParallelNAS" /\ pc = "start"
    /\ LET c == Clone(heap, bps.bp)
       IN  IF c.bp = Nil
           THEN /\ pc' = "done"
                /\ last' = Last("ParStart", "bp", TRUE, "", 0)
                /\ UNCHANGED <<heap, bps, bestM, iter>>
           ELSE \E m \in Outcomes, v \in EvalValues :
                /\ Store(Evaluated(c.h, c.bp, v), [bps EXCEPT !.best = c.bp])
                /\ bestM' = m
                /\ iter' = 1
                /\ pc' = "loop"
                /\ last' = Last("ParStart", "best", FALSE, "", 0)
    /\ UNCHANGED <<nOps, orch, connCh, bestAttempt, wk, chan, wg, committed, snap, panicked>>

\* nas.go lines 437-492: serialize the best graph and start the workers.
ParSpawn ==
    /\ orch = "ParallelNAS" /\ pc = "loop"
    /\ IF iter > MaxIter
       THEN pc' = "finish" /\ UNCHANGED <<wk, chan, wg, snap, iter, committed>>
       ELSE IF ~Marshalable(heap, bps.best)
            THEN /\ iter' = iter + 1 /\ committed' = iter
                 /\ UNCHANGED <<pc, wk, chan, wg, snap>>
            ELSE /\ snap' = Marshal(heap, bps.best)
                 /\ chan' = <<>>
                 /\ wg' = Cardinality(Workers)
                 /\ wk' = [w \in Workers |-> [pc |-> "deserialize", round |-> iter, arg |-> <<>>]]
                 /\ pc' = "wait"
                 /\ UNCHANGED <<iter, committed>>
    /\ last' = Last("ParSpawn", "best", FALSE, "", 0)
    /\ UNCHANGED <<heap, bps, nOps, orch, connCh, bestAttempt, bestM, panicked>>

NodeCount(data) == Cardinality({id \in IDs : data.Neurons[id] # NoNeuron})

\* nas.go line 457 (deserializeBlueprint, lines 426-435, which initializes the
\* activation table) and utils.go lines 638-639 (a new Blueprint that only
\* decodes): the worker decodes its own copy of the serialized graph.
WDeserialize(w) ==
    /\ wk[w].pc = "deserialize" /\ ~panicked
    /\ HasRoom(heap, NodeCount(snap))
    /\ LET res == Unmarshal(heap, snap)
       IN  Store(res.h, [bps EXCEPT ![w] = IF orch = "TryAdd" THEN res.bp
                                            ELSE InitializeActivationFunctions(res.bp)])
    /\ wk' = [wk EXCEPT ![w].pc = IF orch = "TryAdd" THEN "add" ELSE "insert"]
    /\ last' = Last("WDeserialize", w, FALSE, "", 0)
    /\ UNCHANGED <<nOps, orch, connCh, bestAttempt, pc, chan, wg, iter, committed, bestM, snap, panicked>>

\* nas.go lines 464-471: insert a neuron of a random kind of neuronTypes; on
\* error the worker returns without a result.
WInsert(w, kind, s) ==
    /\ wk[w].pc = "insert"
    /\ generateUniqueNeuronID(bps[w]) <= MaxID /\ HasRoom(heap, 1)
    /\ LET res == InsertNeuronOfTypeBetweenInputsAndOutputs(heap, bps[w], kind, s)
       IN  IF res.err
           THEN /\ Store(heap, [bps EXCEPT ![w] = Nil])
                /\ wg' = wg - 1
                /\ wk' = [wk EXCEPT ![w].pc = "done"]
                /\ last' = Last("WInsert", w, TRUE, kind, 0)
           ELSE /\ Store(res.h, [bps EXCEPT ![w] = res.bp])
                /\ wg' = wg
                /\ wk' = [wk EXCEPT ![w].pc = "climb"]
                /\ last' = Last("WInsert", w, FALSE, kind, 0)
    /\ UNCHANGED <<nOps, orch, connCh, bestAttempt, pc, chan, iter, committed, bestM, snap, panicked>>

\* the metric triples drawn for the two evaluations of a hill-climbing step
ClimbOutcomes == {<<50, 50, 50>>, <<50, 60, 40>>}

ClimbChoices(w) == IF wk[w].pc = "climb" THEN Eligible(heap, bps[w]) ELSE {}

\* nas.go lines 474-479: hill-climbing weight updates on the worker's candidate.
WClimb(w, e, delta, candM, curM, v) ==
    /\ wk[w].pc = "climb"
    /\ e \in Eligible(heap, bps[w])
    /\ HasRoom(heap, CloneCost(bps[w]))
    /\ LET res == HillClimbWeightUpdate(heap, bps[w], e[1], e[2], delta, candM, curM, v)
       IN  /\ Store(res.h, [bps EXCEPT ![w] = res.bp])
           /\ last' = Last("WClimb", w, ~res.improved, "", 0)
    /\ wk' = [wk EXCEPT ![w].pc = "evaluate"]
    /\ UNCHANGED <<nOps, orch, connCh, bestAttempt, pc, chan, wg, iter, committed, bestM, snap, panicked>>

\* nas.go lines 482-490 and 454: evaluate the candidate, send the result, Done.
WEvaluate(w, m, v) ==
    /\ wk[w].pc = "evaluate"
    /\ heap' = Evaluated(heap, bps[w], v)
    /\ chan' = Append(chan, Result(m, w))
    /\ wg' = wg - 1
    /\ wk' = [wk EXCEPT ![w].pc = "done"]
    /\ last' = Last("WEvaluate", w, FALSE, "", 0)
    /\ UNCHANGED <<bps, nOps, orch, connCh, bestAttempt, pc, iter, committed, bestM, snap, panicked>>

\* nas.go lines 495-496: wg.Wait(); close(resultsChan)
ParWait ==
    /\ pc = "wait"
    /\ WaitReturns(wg)
    /\ pc' = "reduce"
    /\ last' = Last("ParWait", "best", FALSE, "", 0)
    /\ UNCHANGED <<heap, bps, nOps, orch, connCh, bestAttempt, wk, chan, wg, iter, committed, bestM, snap, panicked>>

\* nas.go lines 498-551: pick the round's winner, commit it, stop early at
\* 100% exact accuracy.
ParReduce ==
    /\ pc = "reduce"
    /\ LET sel == SelectBest(chan, bestM)
           gone == {w \in Workers : wk[w].pc = "done"}
       IN  /\ Store(heap, [x \in DOMAIN bps |->
                              IF x = "best" /\ sel.improved THEN bps[sel.w]
                              ELSE IF x \in gone THEN Nil ELSE bps[x]])
           /\ bestM' = sel.m
           /\ last' = Last("ParReduce", "best", ~sel.improved, "", 0)
           /\ pc' = IF sel.m[1] = 100 THEN "finish" ELSE "loop"
    /\ chan' = <<>>
    /\ committed' = iter
    /\ iter' = iter + 1
    /\ UNCHANGED <<nOps, orch, connCh, bestAttempt, wk, wg, snap, panicked>>

\* nas.go line 562: *bp = *bestBlueprint
ParFinish ==
    /\ pc = "finish"
    /\ Store(heap, [bps EXCEPT !.bp = bps.best])
    /\ pc' = "done"
    /\ last' = Last("ParFinish", "bp", FALSE, "", 0)
    /\ UNCHANGED <<nOps, orch, connCh, bestAttempt, wk, chan, wg, iter, committed, bestM, snap, panicked>>

(***************************************************************************)
(* TryAddConnections (utils.go lines 559-716), in SpecPar.                  *)
(***************************************************************************)
MaxAttempts == 2

\* the metrics of the graph the search starts from
InitOutcomes == {<<50, 50, 50>>}

Attempt(improvement, json, m) == [improvement |-> improvement, json |-> json, m |-> m]

BestImprovement == IF bestAttempt = Nil THEN 0 ELSE bestAttempt.improvement

\* utils.go lines 566-625: evaluate bp, serialize it, start the generator of
\* connection pairs and the workers.
TStart ==
    /\ orch = "TryAdd" /\ pc = "start"
    /\ \E m \in InitOutcomes, v \in EvalValues :
          LET h2 == Evaluated(heap, bps.bp, v)
          IN  /\ heap' = h2
              /\ bestM' = m
              /\ IF ~Marshalable(h2, bps.bp)
                 THEN pc' = "done" /\ UNCHANGED <<snap, wk, wg>>
                 ELSE /\ snap' = Marshal(h2, bps.bp)
                      /\ wk' = [w \in Workers \cup {"gen"} |->
                                  IF w = "gen" THEN [pc |-> "run", round |-> 1, arg |-> {}]
                                  ELSE [pc |-> "receive", round |-> 1, arg |-> <<>>]]
                      /\ wg' = Cardinality(Workers)
                      /\ pc' = "twait"
    /\ last' = Last("TStart", "bp", FALSE, "", 0)
    /\ UNCHANGED <<bps, nOps, orch, connCh, bestAttempt, chan, iter, committed, panicked>>

\* utils.go lines 585-604, one turn of the generator goroutine: it looks for
\* the next pair that is not yet a connection of bp and sends it, or returns
\* when no pair is left.  Nothing makes the function wait for this goroutine:
\* it also runs after the function has returned, when the deferred
\* close(connectionCh) has run, and a send on the closed channel panics.
TGenerate ==
    /\ orch = "TryAdd" /\ pc \in {"twait", "replace", "done"} /\ ~panicked
    /\ "gen" \in DOMAIN wk /\ wk["gen"].pc = "run"
    /\ LET remaining == NewPairs(heap, bps.bp) \ wk["gen"].arg
       IN  IF remaining = {}
           THEN /\ wk' = [wk EXCEPT !["gen"].pc = "done"]
                /\ last' = Last("TGenerate", "bp", FALSE, "", 0)
                /\ UNCHANGED <<connCh, panicked>>
           ELSE IF pc = "done"
           THEN /\ panicked' = TRUE
                /\ last' = Last("TGenerate", "bp", TRUE, "closed", 0)
                /\ UNCHANGED <<connCh, wk>>
           ELSE \E p \in remaining :
                  /\ Len(connCh) < MaxAttempts
                  /\ connCh' = Append(connCh, p)
                  /\ wk' = [wk EXCEPT !["gen"].arg = @ \cup {p}, !["gen"].pc = "check"]
                  /\ last' = Last("TGenerate", "bp", FALSE, "", 0)
                  /\ UNCHANGED panicked
    /\ UNCHANGED <<heap, bps, nOps, orch, bestAttempt, pc, chan, wg, iter, committed, bestM,
                   snap>>

\* utils.go lines 599-601: the generator returns once the channel holds
\* maxAttempts pairs (workers may have received some since the send).
TGenCheck ==
    /\ orch = "TryAdd" /\ ~panicked
    /\ "gen" \in DOMAIN wk /\ wk["gen"].pc = "check"
    /\ wk' = [wk EXCEPT !["gen"].pc = IF Len(connCh) >= MaxAttempts THEN "done" ELSE "run"]
    /\ last' = Last("TGenCheck", "bp", FALSE, "", 0)
    /\ UNCHANGED <<heap, bps, nOps, orch, connCh, bestAttempt, pc, chan, wg, iter, committed,
                   bestM, snap, panicked>>

\* utils.go line 595 while line 703 runs: the generator reads bp.Neurons while
\* DeserializesFromJSON writes it.  The read is a data race; the outcomes are
\* the runtime's fatal error (this action) or a read that goes through
\* (TGenerate).
TGenerateRaces ==
    /\ orch = "TryAdd" /\ pc = "replace" /\ ~panicked
    /\ "gen" \in DOMAIN wk /\ wk["gen"].pc = "run"
    /\ panicked' = TRUE
    /\ last' = Last("TGenerate", "bp", TRUE, "race", 0)
    /\ UNCHANGED <<heap, bps, nOps, orch, connCh, bestAttempt, pc, wk, chan, wg, iter,
                   committed, bestM, snap>>

\* utils.go line 627: connPair, ok := <-connectionCh
TReceive(w) ==
    /\ wk[w].pc = "receive" /\ ~panicked
    /\ connCh # <<>>
    /\ connCh' = Tail(connCh)
    /\ wk' = [wk EXCEPT ![w].pc = "deserialize", ![w].arg = Head(connCh)]
    /\ last' = Last("TReceive", w, FALSE, "", 0)
    /\ UNCHANGED <<heap, bps, nOps, orch, bestAttempt, pc, chan, wg, iter, committed, bestM,
                   snap, panicked>>

\* The worker's last attempt is over: wg.Done().
WorkerReturns(w) ==
    /\ wg' = wg - 1
    /\ wk' = [wk EXCEPT ![w].pc = "done"]

\* utils.go lines 646-651: add the connection to the worker's copy.
TAdd(w, weight) ==
    /\ wk[w].pc = "add" /\ ~panicked
    /\ LET res == addConnection(heap, bps[w], wk[w].arg[1], wk[w].arg[2], weight)
       IN  IF res.err
           THEN /\ Store(heap, [bps EXCEPT ![w] = Nil])
                /\ WorkerReturns(w)
                /\ last' = Last("TAdd", w, TRUE, "", wk[w].arg[2])
           ELSE /\ Store(res.h, [bps EXCEPT ![w] = res.bp])
                /\ wk' = [wk EXCEPT ![w].pc = "tevaluate"]
                /\ wg' = wg
                /\ last' = Last("TAdd", w, FALSE, "", wk[w].arg[2])
    /\ UNCHANGED <<nOps, orch, connCh, bestAttempt, pc, chan, iter, committed, bestM, snap,
                   panicked>>

\* During TryAddConnections chan lists the attempts evaluated so far: the
\* worker, the improvement and metrics of its attempt, and whether the attempt
\* was assigned to bestAttempt.
Tried(w, improvement, m) == [w |-> w, improvement |-> improvement, m |-> m, kept |-> FALSE]

\* The values bestImprovement has held: 0 and every value assigned to it.
Written == {0} \cup {chan[i].improvement : i \in {j \in DOMAIN chan : chan[j].kept}}

\* An update under the lock that does not compare again.
NoSecondComparison(improvement, best) == TRUE

\* utils.go line 676, under mu: if improvement > bestImprovement
SecondComparison(improvement, best) == improvement > best

\* utils.go lines 654-674: evaluate the copy and compare its improvement with
\* bestImprovement, read without the lock.  The read races with the
\* assignments of the other workers and observes one of the values
\* bestImprovement has held.
TEvaluate(w, m, v) ==
    /\ wk[w].pc = "tevaluate" /\ ~panicked
    /\ \E seen \in Written :
          LET h2 == Evaluated(heap, bps[w], v)
              improvement == calculateImprovement(m, bestM)
          IN  /\ chan' = Append(chan, Tried(w, improvement, m))
              /\ IF improvement > seen
                 THEN /\ Store(h2, bps)
                      /\ wk' = [wk EXCEPT ![w].pc = "tlock"]
                      /\ wg' = wg
                 ELSE /\ Store(h2, [bps EXCEPT ![w] = Nil])
                      /\ WorkerReturns(w)
    /\ last' = Last("TEvaluate", w, FALSE, "", 0)
    /\ UNCHANGED <<nOps, orch, connCh, bestAttempt, pc, iter, committed, bestM, snap, panicked>>

\* utils.go lines 675-689: mu.Lock(); compare again and assign bestImprovement
\* and bestAttempt; mu.Unlock().
TUpdate(w) ==
    /\ wk[w].pc = "tlock" /\ ~panicked
    /\ LET i == CHOOSE j \in DOMAIN chan : chan[j].w = w
       IN  IF SecondComparison(chan[i].improvement, BestImprovement)
           THEN /\ bestAttempt' = Attempt(chan[i].improvement, Marshal(heap, bps[w]), chan[i].m)
                /\ chan' = [chan EXCEPT ![i].kept = TRUE]
           ELSE UNCHANGED <<bestAttempt, chan>>
    /\ Store(heap, [bps EXCEPT ![w] = Nil])
    /\ WorkerReturns(w)
    /\ last' = Last("TUpdate", w, FALSE, "", 0)
    /\ UNCHANGED <<nOps, orch, connCh, pc, iter, committed, bestM, snap, panicked>>

\* utils.go lines 698-701 and 711-716: wg.Wait() returns; without a best
\* attempt the function returns (the deferred close runs), with one it goes on
\* to replace bp.
TCommit ==
    /\ orch = "TryAdd" /\ pc = "twait" /\ ~panicked
    /\ WaitReturns(wg)
    /\ IF bestAttempt # Nil /\ BestImprovement > 0
       THEN /\ pc' = "replace"
            /\ last' = Last("TCommit", "bp", FALSE, "adopted", 0)
            /\ UNCHANGED committed
       ELSE /\ pc' = "done"
            /\ last' = Last("TCommit", "bp", FALSE, "none", 0)
            /\ committed' = 1
    /\ UNCHANGED <<heap, bps, nOps, orch, connCh, bestAttempt, wk, chan, wg, iter, bestM, snap,
                   panicked>>

\* utils.go lines 703-716: bp.DeserializesFromJSON(bestAttempt.ModelJSON), then
\* the function returns and the deferred close(connectionCh) runs.
TReplace ==
    /\ orch = "TryAdd" /\ pc = "replace" /\ ~panicked
    /\ LET res == UnmarshalInto(heap, bps.bp, bestAttempt.json)
       IN  Store(res.h, [bps EXCEPT !.bp = res.bp])
    /\ last' = Last("TReplace", "bp", FALSE, "adopted", 0)
    /\ pc' = "done"
    /\ committed' = 1
    /\ UNCHANGED <<nOps, orch, connCh, bestAttempt, wk, chan, wg, iter, bestM, snap, panicked>>

\* TryAddConnections alone: every goroutine that can take a step gets one.
InitTry == InitPar /\ orch = "TryAdd"

NextTry ==
    \/ TStart
    \/ TGenerate
    \/ TGenCheck
    \/ TGenerateRaces
    \/ \E w \in Workers : TReceive(w)
    \/ \E w \in Workers : WDeserialize(w)
    \/ \E w \in Workers : TAdd(w, 1)
    \/ \E w \in Workers, m \in Outcomes, v \in EvalValues : TEvaluate(w, m, v)
    \/ \E w \in Workers : TUpdate(w)
    \/ TCommit
    \/ TReplace

\* The steps of the generator goroutine, of worker w and of the caller.
GenStep == TGenerate \/ TGenCheck \/ TGenerateRaces

WorkerStep(w) ==
    \/ TReceive(w)
    \/ WDeserialize(w)
    \/ TAdd(w, 1)
    \/ \E m \in Outcomes, v \in EvalValues : TEvaluate(w, m, v)
    \/ TUpdate(w)

\* Worker w can take a step: the guards of the five actions of WorkerStep(w).
WorkerCanStep(w) ==
    /\ ~panicked
    /\ \/ wk[w].pc = "receive" /\ connCh # <<>>
       \/ wk[w].pc = "deserialize" /\ HasRoom(heap, NodeCount(snap))
       \/ wk[w].pc = "add"
       \/ wk[w].pc = "tevaluate"
       \/ wk[w].pc = "tlock"

\* The scheduler lets every goroutine that can take a step take one: weak
\* fairness of the generator, of the caller and of each worker.  For the
\* worker and for the replacement of bp the enabling condition is written out
\* (WF_vars(A) is []<>~ENABLED <<A>>_vars \/ []<><<A>>_vars).
TryFairness ==
    /\ WF_vars(GenStep)
    /\ WF_vars(TStart \/ TCommit)
    /\ []<>~(orch = "TryAdd" /\ pc = "replace" /\ ~panicked) \/ []<><<TReplace>>_vars
    /\ \A w \in Workers : []<>~WorkerCanStep(w) \/ []<><<WorkerStep(w)>>_vars

SpecTryFair == InitTry /\ [][NextTry]_vars /\ TryFairness


(***************************************************************************)
(* LearnOneDataItemAtATime, for one batch of one session and at most one    *)
(* attempt per worker: the first definition (neuron.go lines 295-726) is    *)
(* the search "LearnOne", the second (lines 852-970, with                   *)
(* performRandomModification) the search "LearnOne2".  iter holds the       *)
(* argument maxAttemptsPerSession.                                          *)
(***************************************************************************)
LearnOrchs == {"LearnOne", "LearnOne2"}

\* The collecting loop's variables: bestBatchAttempt points to `at` (Nil for
\* the nil pointer), improvement is bestBatchImprovement.  perIteration tells
\* how the build compiles `for attempt := range attemptCh`: a new variable
\* `attempt` per iteration (language version 1.22 or later) or one variable
\* for the whole loop.  received lists the attempts received so far.
Selection(at, improvement, perIteration, received) ==
    [at |-> at, improvement |-> improvement, perIteration |-> perIteration,
     received |-> received]

\* bestBatchAttempt = &attempt was executed in an earlier iteration and the
\* loop has one variable `attempt`: the pointer now reads the attempt just
\* received.
Aliased(sel, attempt) == IF sel.perIteration \/ sel.at = Nil THEN sel.at ELSE attempt

\* neuron.go lines 676-681: one iteration of the loop over attemptCh
CollectFirst(sel, attempt) ==
    IF attempt.improvement > sel.improvement
    THEN [sel EXCEPT !.at = attempt, !.improvement = attempt.improvement,
                     !.received = Append(@, attempt)]
    ELSE [sel EXCEPT !.at = Aliased(sel, attempt), !.received = Append(@, attempt)]

\* func calculateImprovement, second definition (neuron.go lines 997-999)
calculateImprovement2(m, initial) ==
    (m[1] - initial[1]) + (m[2] - initial[2]) + (m[3] - initial[3])

\* func validateImprovement (neuron.go lines 1002-1005)
validateImprovement(m, initial) ==
    /\ m[1] >= initial[1] /\ m[2] >= initial[2] /\ m[3] >= initial[3]
    /\ (m[1] > initial[1] \/ m[2] > initial[2] \/ m[3] > initial[3])

\* neuron.go lines 924-937: one iteration of the loop over attemptCh
CollectSecond(sel, attempt, initial) ==
    IF /\ validateImprovement(attempt.m, initial)
       /\ calculateImprovement2(attempt.m, initial) > sel.improvement
    THEN [sel EXCEPT !.at = attempt, !.improvement = calculateImprovement2(attempt.m, initial),
                     !.received = Append(@, attempt)]
    ELSE [sel EXCEPT !.at = Aliased(sel, attempt), !.received = Append(@, attempt)]

\* the values of maxAttemptsPerSession
LearnAttempts == {0, 1}

\* neuron.go line 333: the buffer of attemptCh holds
\* len(batch) * maxAttemptsPerSession * 5 attempts, and runtime.NumCPU() workers
\* send up to len(batch) * maxAttemptsPerSession attempts each.  With the two
\* workers of the model, one slot per attempt gives the case of six or more
\* workers: more attempts than the buffer holds.
BufferPerAttempt == 1

LearnCap == 1 * iter * BufferPerAttempt

Mod(type, kind, a, b, weight, targets) ==
    [type |-> type, kind |-> kind, a |-> a, b |-> b, weight |-> weight, targets |-> targets]

LearnActivations == {"relu"}

\* neuron.go lines 351-598: the modification a worker draws, read from bp.
\* A type for which bp offers no candidate ends the attempt ("none").
LearnMods(h, bp) ==
    LET orNone(S, type) == IF S = {} THEN {Mod("none", type, 0, 0, 0, <<>>)} ELSE S
    IN  {Mod("insert_neuron", k, 0, 0, 0, <<t>>) : k \in NasKinds, t \in NeuronIDs(bp)}
        \cup orNone({Mod("add_connection", "", p[1], p[2], 1, <<>>) : p \in NewPairs(h, bp)},
                    "add_connection")
        \cup orNone({Mod("modify_activation", act, id, 0, 0, <<>>) :
                        id \in HiddenNeurons(h, bp), act \in LearnActivations},
                    "modify_activation")
        \cup orNone({Mod("remove_connection", "", p[1], p[2], 0, <<>>) : p \in ExistingPairs(h, bp)},
                    "remove_connection")
        \cup orNone({Mod("adjust_weight", "", p[1], p[2],
                         getConnectionWeight(h, bp, p[1], p[2]) + 1, <<>>) : p \in ExistingPairs(h, bp)},
                    "adjust_weight")

\* The modification applied to the worker's copy newBP.
Modify(h, bp, mod) ==
    CASE mod.type = "insert_neuron" ->
             InsertNeuronWithRandomConnections(h, bp, mod.kind, mod.targets, 1, <<1, -1>>)
      [] mod.type = "add_connection" -> addConnection(h, bp, mod.a, mod.b, mod.weight)
      [] mod.type = "modify_activation" -> modifyActivationFunction(h, bp, mod.a, mod.kind)
      [] mod.type = "remove_connection" -> removeConnection(h, bp, mod.a, mod.b)
      [] mod.type = "adjust_weight" -> addConnection(h, bp, mod.a, mod.b, mod.weight)

\* neuron.go lines 310-347: evaluate bp on all sessions and start the workers
\* of the batch.  snap records the graph bp is at the start of the batch.
LStart ==
    /\ orch \in LearnOrchs /\ pc = "start"
    /\ \E m \in InitOutcomes, v \in EvalValues :
          /\ heap' = Evaluated(heap, bps.bp, v)
          /\ bestM' = m
          /\ snap' = View(heap', bps.bp)
    /\ wk' = [w \in Workers |-> [pc |-> "plan", round |-> 1, arg |-> <<>>]]
    /\ wg' = Cardinality(Workers)
    /\ \E a \in LearnAttempts : iter' = a
    /\ \E b \in BOOLEAN : bestAttempt' = Selection(Nil, 0, b, <<>>)
    /\ pc' = "collect"
    /\ last' = Last("LStart", "bp", FALSE, "", 0)
    /\ UNCHANGED <<bps, nOps, orch, connCh, chan, committed, panicked>>

\* neuron.go lines 343-345 and 662-664: with maxAttemptsPerSession = 0 the
\* worker's loops have no iteration and the worker returns.
LNoAttempt(w) ==
    /\ orch \in LearnOrchs /\ wk[w].pc = "plan" /\ iter = 0
    /\ WorkerReturns(w)
    /\ last' = Last("LNoAttempt", w, FALSE, "", 0)
    /\ UNCHANGED <<heap, bps, nOps, orch, connCh, bestAttempt, pc, chan, iter, committed, bestM,
                   snap, panicked>>

\* neuron.go lines 349-372 (and the same steps of the other four cases): draw
\* the modification, serialize bp and decode it into a new Blueprint.
LPlan(w, mod) ==
    /\ orch = "LearnOne" /\ wk[w].pc = "plan" /\ iter > 0
    /\ mod \in LearnMods(heap, bps.bp)
    /\ IF mod.type = "none" \/ ~Marshalable(heap, bps.bp)
       THEN /\ WorkerReturns(w)
            /\ UNCHANGED <<heap, bps>>
            /\ last' = Last("LPlan", w, TRUE, mod.kind, 0)
       ELSE /\ HasRoom(heap, CloneCost(bps.bp) + 1)
            /\ LET u == Unmarshal(heap, Marshal(heap, bps.bp))
               IN  Store(u.h, [bps EXCEPT ![w] = u.bp])
            /\ wk' = [wk EXCEPT ![w].pc = "modify", ![w].arg = mod]
            /\ wg' = wg
            /\ last' = Last("LPlan", w, FALSE, mod.type, 0)
    /\ UNCHANGED <<nOps, orch, connCh, bestAttempt, pc, chan, iter, committed, bestM, snap,
                   panicked>>

\* neuron.go lines 374-379, 432-437, 499-504, 559, 619-624: modify newBP.
LModify(w) ==
    /\ wk[w].pc = "modify"
    /\ LET res == Modify(heap, bps[w], wk[w].arg)
       IN  IF res.err
           THEN /\ Store(heap, [bps EXCEPT ![w] = Nil])
                /\ WorkerReturns(w)
                /\ last' = Last("LModify", w, TRUE, wk[w].arg.type, 0)
           ELSE /\ Store(res.h, [bps EXCEPT ![w] = res.bp])
                /\ wk' = [wk EXCEPT ![w].pc = "levaluate"]
                /\ wg' = wg
                /\ last' = Last("LModify", w, FALSE, wk[w].arg.type, 0)
    /\ UNCHANGED <<nOps, orch, connCh, bestAttempt, pc, chan, iter, committed, bestM, snap,
                   panicked>>

\* neuron.go lines 381-396: evaluate newBP on the single session; the attempt
\* is to be sent when its improvement over the initial metrics is positive.
LEvaluate(w, m, v) ==
    /\ wk[w].pc = "levaluate"
    /\ LET h2 == Evaluated(heap, bps[w], v)
           improvement == calculateImprovement(m, bestM)
       IN  /\ Store(h2, [bps EXCEPT ![w] = Nil])
           /\ IF improvement > 0
              THEN /\ wk' = [wk EXCEPT ![w].pc = "send",
                                       ![w].arg = Attempt(improvement, Marshal(h2, bps[w]), m)]
                   /\ wg' = wg
              ELSE WorkerReturns(w)
    /\ last' = Last("LEvaluate", w, FALSE, "", 0)
    /\ UNCHANGED <<nOps, orch, connCh, bestAttempt, pc, chan, iter, committed, bestM, snap,
                   panicked>>

\* neuron.go lines 397-409: attemptCh <- attemptResult, which waits while the
\* buffer is full; it was the worker's last attempt.
LSend(w) ==
    /\ orch \in LearnOrchs /\ wk[w].pc = "send"
    /\ Len(chan) < LearnCap
    /\ chan' = Append(chan, wk[w].arg)
    /\ WorkerReturns(w)
    /\ last' = Last("LSend", w, FALSE, "", 0)
    /\ UNCHANGED <<heap, bps, nOps, orch, connCh, bestAttempt, pc, iter, committed, bestM, snap,
                   panicked>>

\* neuron.go lines 676-681: the main goroutine receives an attempt and keeps it
\* when its improvement is higher than the best of the batch.
LCollect ==
    /\ orch = "LearnOne" /\ pc \in {"collect", "drain"}
    /\ chan # <<>>
    /\ chan' = Tail(chan)
    /\ bestAttempt' = CollectFirst(bestAttempt, Head(chan))
    /\ last' = Last("LCollect", "bp", FALSE, "", 0)
    /\ UNCHANGED <<heap, bps, nOps, orch, connCh, pc, wk, wg, iter, committed, bestM, snap,
                   panicked>>

\* neuron.go lines 667-670: wgWorkers.Wait(); close(attemptCh)
LClose ==
    /\ orch \in LearnOrchs /\ pc = "collect"
    /\ WaitReturns(wg)
    /\ pc' = "drain"
    /\ last' = Last("LClose", "bp", FALSE, "", 0)
    /\ UNCHANGED <<heap, bps, nOps, orch, connCh, bestAttempt, wk, chan, wg, iter, committed,
                   bestM, snap, panicked>>

\* neuron.go lines 684-722: the channel is closed and drained.  The best attempt
\* is decoded into bp, bp is evaluated on all sessions (m), and the initial
\* metrics become m; last.err tells that the overall improvement is not
\* positive.
LCommit(m, v) ==
    /\ orch = "LearnOne" /\ pc = "drain"
    /\ chan = <<>>
    /\ IF bestAttempt.at # Nil /\ BestImprovement > 0
       THEN LET res == UnmarshalInto(heap, bps.bp, bestAttempt.at.json)
                h2 == Evaluated(res.h, res.bp, v)
            IN  /\ Store(h2, [bps EXCEPT !.bp = res.bp])
                /\ bestM' = m
                /\ last' = Last("LCommit", "bp", ~(calculateImprovement(m, bestM) > 0),
                                "adopted", 0)
       ELSE /\ UNCHANGED <<heap, bps, bestM>>
            /\ last' = Last("LCommit", "bp", FALSE, "none", 0)
    /\ pc' = "done"
    /\ committed' = 1
    /\ UNCHANGED <<nOps, orch, connCh, bestAttempt, wk, chan, wg, iter, snap, panicked>>

(***************************************************************************)
(* The second definition: the worker calls performRandomModification.       *)
(***************************************************************************)
\* the metric triples an evaluation of the second definition returns
LearnOutcomes2 == {<<50, 60, 50>>, <<100, 100, 40>>, <<50, 50, 50>>, <<0, 0, 0>>}

\* A NeuronAdditionAttempt of performRandomModification; evaluated records the
\* graph newBP that EvaluateModelPerformance ran on.
Reported(improvement, json, m, evaluated) ==
    [improvement |-> improvement, json |-> json, m |-> m, evaluated |-> evaluated]

\* neuron.go lines 1083-1110: the switch over modType.  When the drawn pair or
\* neuron is -1 nothing is modified and err stays nil.
Modify2(h, bp, mod) == IF mod.type = "none" THEN Res(h, bp, FALSE) ELSE Modify(h, bp, mod)

\* func (bp *Blueprint) performRandomModification(sess, neuronTypes): nil, or
\* the attempt it returns.
performRandomModification(h, bp, mod, m, v) ==
    IF ~Marshalable(h, bp) THEN Nil
    ELSE LET modelJSON == Marshal(h, bp)
             u == Unmarshal(h, modelJSON)
             res == Modify2(u.h, u.bp, mod)
             improvement == calculateImprovement2(m, <<0, 0, 0>>)
         IN  IF res.err \/ ~(improvement > 0) THEN Nil
             ELSE Reported(improvement, modelJSON, m,
                           Marshal(Evaluated(res.h, res.bp, v), res.bp))

\* neuron.go lines 901-909: the worker's attempt.  newBP is garbage when
\* performRandomModification has returned.
L2Perform(w, mod, m, v) ==
    /\ orch = "LearnOne2" /\ wk[w].pc = "plan" /\ iter > 0
    /\ mod \in LearnMods(heap, bps.bp)
    /\ ~Marshalable(heap, bps.bp) \/ HasRoom(heap, CloneCost(bps.bp) + 1)
    /\ LET attemptResult == performRandomModification(heap, bps.bp, mod, m, v)
       IN  /\ IF attemptResult = Nil
              THEN WorkerReturns(w)
              ELSE wk' = [wk EXCEPT ![w].pc = "send", ![w].arg = attemptResult] /\ wg' = wg
           /\ last' = Last("L2Perform", w, attemptResult = Nil, mod.type, 0)
    /\ UNCHANGED <<heap, bps, nOps, orch, connCh, bestAttempt, pc, chan, iter, committed, bestM,
                   snap, panicked>>

\* neuron.go lines 924-937: the main goroutine receives an attempt.
L2Collect ==
    /\ orch = "LearnOne2" /\ pc \in {"collect", "drain"}
    /\ chan # <<>>
    /\ chan' = Tail(chan)
    /\ bestAttempt' = CollectSecond(bestAttempt, Head(chan), bestM)
    /\ last' = Last("L2Collect", "bp", FALSE, "", 0)
    /\ UNCHANGED <<heap, bps, nOps, orch, connCh, pc, wk, wg, iter, committed, bestM, snap,
                   panicked>>

\* neuron.go lines 940-965: the channel is closed and drained.  The best
\* attempt's model is decoded into a new Blueprint and evaluated on all
\* sessions (m); *bp = *newBlueprint when validateImprovement accepts m.
\* last.kind is "adopted" when bp was replaced, "rejected" when the decoded
\* model was not accepted, "none" without a best attempt.
L2Commit(m, v) ==
    /\ orch = "LearnOne2" /\ pc = "drain"
    /\ chan = <<>>
    /\ IF bestAttempt.at # Nil
       THEN /\ HasRoom(heap, NodeCount(bestAttempt.at.json))
            /\ LET u == Unmarshal(heap, bestAttempt.at.json)
                   h2 == Evaluated(u.h, u.bp, v)
               IN  IF validateImprovement(m, bestM)
                   THEN /\ Store(h2, [bps EXCEPT !.bp = u.bp])
                        /\ bestM' = m
                        /\ last' = Last("L2Commit", "bp", FALSE, "adopted", 0)
                   ELSE /\ UNCHANGED <<heap, bps, bestM>>
                        /\ last' = Last("L2Commit", "bp", TRUE, "rejected", 0)
       ELSE /\ UNCHANGED <<heap, bps, bestM>>
            /\ last' = Last("L2Commit", "bp", FALSE, "none", 0)
    /\ pc' = "done"
    /\ committed' = 1
    /\ UNCHANGED <<nOps, orch, connCh, bestAttempt, wk, chan, wg, iter, snap, panicked>>

\* LearnOneDataItemAtATime alone, with the steps of worker w, of the goroutine
\* that closes attemptCh and of the caller.
InitLearn == InitPar /\ orch = "LearnOne"

LearnWorkerStep(w) ==
    \/ LNoAttempt(w)
    \/ \E mod \in LearnMods(heap, bps.bp) : LPlan(w, mod)
    \/ LModify(w)
    \/ \E m \in Outcomes, v \in EvalValues : LEvaluate(w, m, v)
    \/ LSend(w)

NextLearn ==
    \/ LStart
    \/ \E w \in Workers : LearnWorkerStep(w)
    \/ LCollect
    \/ LClose
    \/ \E m \in Outcomes, v \in EvalValues : LCommit(m, v)

\* Worker w can take a step: the guards of the actions of LearnWorkerStep(w).
LearnWorkerCanStep(w) ==
    /\ orch = "LearnOne"
    /\ \/ wk[w].pc = "plan" /\ iter = 0
       \/ /\ wk[w].pc = "plan" /\ iter > 0
          /\ \/ ~Marshalable(heap, bps.bp)
             \/ HasRoom(heap, CloneCost(bps.bp) + 1)
             \/ \E mod \in LearnMods(heap, bps.bp) : mod.type = "none"
       \/ wk[w].pc = "modify"
       \/ wk[w].pc = "levaluate"
       \/ wk[w].pc = "send" /\ Len(chan) < LearnCap

\* The scheduler lets every goroutine that can take a step take one: weak
\* fairness of the closing goroutine, of the caller and of each worker.  For
\* the worker and for the caller's commit the enabling condition is written
\* out (WF_vars(A) is []<>~ENABLED <<A>>_vars \/ []<><<A>>_vars).
LearnFairness ==
    /\ WF_vars(LClose)
    /\ WF_vars(LCollect)
    /\ []<>~(orch = "LearnOne" /\ pc = "start") \/ []<><<LStart>>_vars
    /\ []<>~(orch = "LearnOne" /\ pc = "drain" /\ chan = <<>>)
          \/ []<><<\E m \in Outcomes, v \in EvalValues : LCommit(m, v)>>_vars
    /\ \A w \in Workers : []<>~LearnWorkerCanStep(w) \/ []<><<LearnWorkerStep(w)>>_vars

SpecLearnFair == InitLearn /\ [][NextLearn]_vars /\ LearnFairness

NextPar ==
    \/ ParStart
    \/ ParSpawn
    \/ \E w \in Workers : WDeserialize(w)
    \/ \E w \in Workers, kind \in NasKinds, s \in InsertStreams : WInsert(w, kind, s)
    \/ \E w \in Workers : \E e \in ClimbChoices(w), candM \in ClimbOutcomes,
          curM \in ClimbOutcomes, v \in EvalValues : WClimb(w, e, 1, candM, curM, v)
    \/ \E w \in Workers, m \in Outcomes, v \in EvalValues : WEvaluate(w, m, v)
    \/ ParWait
    \/ ParReduce
    \/ ParFinish
    \/ TStart
    \/ TGenerate
    \/ TGenCheck
    \/ TGenerateRaces
    \/ \E w \in Workers : TReceive(w)
    \/ \E w \in Workers : TAdd(w, 1)
    \/ \E w \in Workers, m \in Outcomes, v \in EvalValues : TEvaluate(w, m, v)
    \/ \E w \in Workers : TUpdate(w)
    \/ TCommit
    \/ TReplace
    \/ LStart
    \/ \E w \in Workers : LNoAttempt(w)
    \/ \E w \in Workers : \E mod \in LearnMods(heap, bps.bp) : LPlan(w, mod)
    \/ \E w \in Workers : LModify(w)
    \/ \E w \in Workers, m \in Outcomes, v \in EvalValues : LEvaluate(w, m, v)
    \/ \E w \in Workers : LSend(w)
    \/ LCollect
    \/ LClose
    \/ \E m \in Outcomes, v \in EvalValues : LCommit(m, v)
    \/ \E w \in Workers : \E mod \in LearnMods(heap, bps.bp) :
          \E m \in LearnOutcomes2, v \in EvalValues : L2Perform(w, mod, m, v)
    \/ L2Collect
    \/ \E m \in LearnOutcomes2, v \in EvalValues : L2Commit(m, v)

SpecPar == InitPar /\ [][NextPar]_vars

(***************************************************************************)
(* Properties of SpecPar.                                                   *)
(***************************************************************************)
WorkerOps ==
    {"WDeserialize", "WInsert", "WClimb", "WEvaluate", "TReceive", "TAdd", "TEvaluate",
     "LPlan", "LModify", "LEvaluate"}

WorkerMutations == {"WInsert", "WClimb", "TAdd", "LModify"}

\* C2: a step of a worker (decoding its copy, mutating it, evaluating it)
\* changes no graph but that worker's own: the committed graph bp, the best
\* graph and the other worker's candidate keep every node, connection, weight,
\* value and ID list.
C2_WorkersIsolated ==
    [][last'.op \in WorkerOps =>
         \A x \in DOMAIN bps \ {last'.on} : View(heap', bps'[x]) = View(heap, bps[x])]_vars

\* A worker has just mutated its candidate, which now differs from the
\* committed graph, while the other worker holds a candidate too.
C2_Witness ==
    /\ last.op \in WorkerMutations /\ ~last.err
    /\ \A w \in Workers : bps[w] # Nil
    /\ View(heap, bps[last.on]) # View(heap, bps.bp)

Reverse(seq) == [i \in 1..Len(seq) |-> seq[Len(seq) + 1 - i]]

\* What the reduction commits for the results in the given arrival order.
Committed(results) ==
    LET sel == SelectBest(results, bestM)
    IN  [improved |-> sel.improved, m |-> sel.m,
         graph |-> IF sel.improved THEN View(heap, bps[sel.w]) ELSE Nil]

\* C3: when the results of a round are reduced, the candidate committed is the
\* same for the opposite arrival order of the same results.
C3_OrderIndependent ==
    (orch = "ParallelNAS" /\ pc = "reduce") => Committed(Reverse(chan)) = Committed(chan)

\* C4: the results are reduced and the best graph replaced only when every
\* worker of the round has returned, and a worker that is running belongs to
\* the round after the last committed one, while the main goroutine waits.
C4_RoundBarrier ==
    orch = "ParallelNAS" =>
        /\ pc = "reduce" => (wg = 0 /\ \A w \in Workers : wk[w].pc = "done")
        /\ \A w \in Workers :
              wk[w].pc \notin {"none", "done"} => (pc = "wait" /\ wk[w].round = committed + 1)

\* Round 1 is committed and a worker of round 2 is running.
C4_Witness ==
    /\ orch = "ParallelNAS" /\ committed = 1
    /\ \E w \in Workers : wk[w].pc = "climb" /\ wk[w].round = 2

\* The graph without the values the forward pass leaves in its nodes.
Structure(view) ==
    [view EXCEPT !.Neurons = [id \in IDs |-> IF view.Neurons[id] = NoNeuron THEN NoNeuron
                                             ELSE [view.Neurons[id] EXCEPT !.Value = 0]]]

\* C6: after the batch of LearnOneDataItemAtATime, when the evaluation of the
\* adopted candidate over all sessions shows no improvement, bp has the nodes,
\* connections, weights and activations it had before the batch.
C6_AdoptedOnlyIfImproved ==
    (orch = "LearnOne" /\ last.op = "LCommit" /\ last.kind = "adopted" /\ last.err)
        => Structure(View(heap, bps.bp)) = Structure(snap)

(***************************************************************************)
(* SpecSeq: the sequential searches.  One run of SimpleNAS,                 *)
(* SimpleNASWithoutCrossover, SimpleNASWithRandomConnections, the           *)
(* population set-up of EvolutionaryTrain, or a series of                   *)
(* HillClimbWeightUpdate calls, on the Blueprint bp.                        *)
(***************************************************************************)
SeqOrchs ==
    {"SimpleNAS", "SimpleNASWithoutCrossover", "SimpleNASWithRandomConnections",
     "EvolutionaryTrain", "HillClimb"}

\* the metricsToOptimize argument of SimpleNASWithoutCrossover, as indexes of
\* the metric triple (exact, generous, forgiveness)
SelectedMetrics == {1, 2, 3}

PopulationSize == 2

\* the largest generations argument of EvolutionaryTrain
Generations == 1

\* The populationSize and generations arguments of a call of EvolutionaryTrain;
\* snap holds them during the call.
EvoArgs ==
    {[populationSize |-> p, generations |-> g] : p \in 1..PopulationSize, g \in 0..Generations}

seqIdle == <<nOps, wk, chan, connCh, wg, committed, snap>>

\* the metrics of the graph a sequential search starts from
SeqInitOutcomes == InitOutcomes \cup {<<100, 100, 100>>}

InitSeq ==
    /\ orch \in SeqOrchs
    /\ \E sh \in {ParShape, [ParShape EXCEPT !.nan = TRUE]}
                  \cup (IF orch = "HillClimb" THEN {TryShape, BareShape} ELSE {}) :
          /\ heap = ShapeHeap(sh)
          /\ bps = [bp |-> ShapeBlueprint(sh), best |-> Nil, c |-> Nil,
                    p1 |-> Nil, p2 |-> Nil, n1 |-> Nil, n2 |-> Nil]
    /\ last = Last("new", "bp", FALSE, "", 0)
    /\ nOps = 0
    /\ pc = "start"
    /\ wk = <<>> /\ chan = <<>> /\ connCh = <<>> /\ bestAttempt = Nil /\ wg = 0
    /\ iter = 0 /\ committed = 0 /\ bestM = <<>> /\ panicked = FALSE
    /\ IF orch = "EvolutionaryTrain" THEN snap \in EvoArgs ELSE snap = Nil

\* A method that reads the fields of its receiver was called on a nil
\* *Blueprint: the goroutine panics and the program ends.
Panic(op, on) ==
    /\ panicked' = TRUE
    /\ pc' = "crashed"
    /\ last' = Last(op, on, TRUE, "panic", 0)
    /\ UNCHANGED <<heap, bps, iter, bestM, bestAttempt>>

\* nas.go lines 29-34: bestBlueprint := bp.Clone(), evaluated without a nil
\* check.
NStart ==
    /\ orch = "SimpleNAS" /\ pc = "start"
    /\ HasRoom(heap, CloneCost(bps.bp))
    /\ LET c == Clone(heap, bps.bp)
       IN  IF c.bp = Nil
           THEN Panic("NStart", "best")
           ELSE \E m \in InitOutcomes, v \in EvalValues :
                  /\ Store(Evaluated(c.h, c.bp, v), [bps EXCEPT !.best = c.bp])
                  /\ bestM' = m
                  /\ iter' = 1
                  /\ pc' = "loop"
                  /\ last' = Last("NStart", "best", FALSE, "", 0)
                  /\ UNCHANGED <<bestAttempt, panicked>>
    /\ UNCHANGED <<orch, seqIdle>>

\* nas.go lines 36-67: one iteration of SimpleNAS.  The candidate is a clone of
\* the best graph, used without a nil check; it replaces the best graph when
\* any metric is higher.  last.err tells that nothing was committed.
NAttempt(kind, s, m, v) ==
    /\ orch = "SimpleNAS" /\ pc = "loop" /\ iter <= MaxIter
    /\ generateUniqueNeuronID(bps.best) <= MaxID
    /\ HasRoom(heap, CloneCost(bps.best) + 1)
    /\ LET c == Clone(heap, bps.best)
       IN  IF c.bp = Nil
           THEN IF isValidNeuronType(kind)
                THEN Panic("NAttempt", "c")
                ELSE /\ iter' = iter + 1
                     /\ last' = Last("NAttempt", "c", TRUE, kind, 0)
                     /\ UNCHANGED <<heap, bps, pc, bestM, bestAttempt, panicked>>
           ELSE LET res == InsertNeuronOfTypeBetweenInputsAndOutputs(c.h, c.bp, kind, s)
                    h2 == Evaluated(res.h, res.bp, v)
                    accept == ~res.err /\ AnyImproves(m, bestM)
                IN  /\ IF accept THEN Store(h2, [bps EXCEPT !.best = res.bp])
                       ELSE IF res.err THEN UNCHANGED <<heap, bps>>
                       ELSE Store(h2, bps)
                    /\ bestM' = IF accept THEN m ELSE bestM
                    /\ iter' = iter + 1
                    /\ last' = Last("NAttempt", "best", ~accept, kind, 0)
                    /\ UNCHANGED <<pc, bestAttempt, panicked>>
    /\ UNCHANGED <<orch, seqIdle>>

\* nas.go line 70, line 364: *bp = *bestBlueprint
NFinish ==
    /\ orch \in {"SimpleNAS", "SimpleNASWithRandomConnections"}
    /\ pc = "break" \/ (pc = "loop" /\ iter > MaxIter)
    /\ Store(heap, [bps EXCEPT !.bp = bps.best, !.c = Nil])
    /\ pc' = "done"
    /\ last' = Last("NFinish", "bp", FALSE, "", 0)
    /\ UNCHANGED <<orch, seqIdle, iter, bestM, bestAttempt, panicked>>

\* nas.go lines 134-140: SimpleNASWithoutCrossover evaluates bp itself.
\* bestAttempt.m holds the metrics the model now in *bp obtained when it was
\* evaluated.
XStart ==
    /\ orch = "SimpleNASWithoutCrossover" /\ pc = "start"
    /\ IF SelectedMetrics = {}
       THEN /\ pc' = "done"
            /\ UNCHANGED <<heap, bps, bestM, iter, bestAttempt>>
       ELSE \E m \in SeqInitOutcomes, v \in EvalValues :
              /\ Store(Evaluated(heap, bps.bp, v), bps)
              /\ bestM' = m
              /\ bestAttempt' = Attempt(0, Nil, m)
              /\ iter' = 1
              /\ pc' = "loop"
    /\ last' = Last("XStart", "bp", FALSE, "", 0)
    /\ UNCHANGED <<orch, seqIdle, panicked>>

\* nas.go lines 142-243: one iteration of SimpleNASWithoutCrossover.  A failed
\* clone skips the iteration; an accepted candidate is copied into *bp and the
\* best value of each selected metric is raised.
XAttempt(kind, s, m, v) ==
    /\ orch = "SimpleNASWithoutCrossover" /\ pc = "loop" /\ iter <= MaxIter
    /\ generateUniqueNeuronID(bps.bp) <= MaxID
    /\ HasRoom(heap, CloneCost(bps.bp) + 1)
    /\ LET c == Clone(heap, bps.bp)
       IN  IF c.bp = Nil
           THEN /\ last' = Last("XAttempt", "c", TRUE, "clone", 0)
                /\ UNCHANGED <<heap, bps, bestM, bestAttempt, pc>>
           ELSE LET res == InsertNeuronOfTypeBetweenInputsAndOutputs(c.h, c.bp, kind, s)
                    h2 == Evaluated(res.h, res.bp, v)
                    improved == ~res.err /\ \E i \in SelectedMetrics : m[i] > bestM[i]
                    raised == [i \in 1..3 |-> IF i \in SelectedMetrics /\ m[i] > bestM[i]
                                              THEN m[i] ELSE bestM[i]]
                IN  /\ IF improved THEN Store(h2, [bps EXCEPT !.bp = res.bp])
                       ELSE UNCHANGED <<heap, bps>>
                    /\ bestM' = IF improved THEN raised ELSE bestM
                    /\ bestAttempt' = IF improved THEN Attempt(0, Nil, m) ELSE bestAttempt
                    /\ pc' = IF ~res.err /\ \E i \in SelectedMetrics : bestM'[i] = 100
                             THEN "done" ELSE "loop"
                    /\ last' = Last("XAttempt", "bp", ~improved, kind, 0)
    /\ iter' = iter + 1
    /\ UNCHANGED <<orch, seqIdle, panicked>>

\* nas.go line 246: the loop of SimpleNASWithoutCrossover is over.
XFinish ==
    /\ orch = "SimpleNASWithoutCrossover" /\ pc = "loop" /\ iter > MaxIter
    /\ pc' = "done"
    /\ last' = Last("XFinish", "bp", FALSE, "", 0)
    /\ UNCHANGED <<heap, bps, orch, seqIdle, iter, bestM, bestAttempt, panicked>>

\* nas.go lines 259-266: SimpleNASWithRandomConnections returns when the first
\* clone fails.
RStart ==
    /\ orch = "SimpleNASWithRandomConnections" /\ pc = "start"
    /\ HasRoom(heap, CloneCost(bps.bp))
    /\ LET c == Clone(heap, bps.bp)
       IN  IF c.bp = Nil
           THEN /\ pc' = "done"
                /\ last' = Last("RStart", "best", TRUE, "clone", 0)
                /\ UNCHANGED <<heap, bps, bestM, iter>>
           ELSE \E m \in SeqInitOutcomes, v \in EvalValues :
                  /\ Store(Evaluated(c.h, c.bp, v), [bps EXCEPT !.best = c.bp])
                  /\ bestM' = m
                  /\ iter' = 1
                  /\ pc' = "loop"
                  /\ last' = Last("RStart", "best", FALSE, "", 0)
    /\ UNCHANGED <<orch, seqIdle, bestAttempt, panicked>>

\* nas.go lines 286-352: one iteration of SimpleNASWithRandomConnections, with
\* one hill-climbing step.  The early exit (lines 348-351) is the last
\* statement of the loop body: an iteration that ends in `continue` skips it.
RAttempt(kind, s, e, candM, curM, m, v) ==
    /\ orch = "SimpleNASWithRandomConnections" /\ pc = "loop" /\ iter <= MaxIter
    /\ generateUniqueNeuronID(bps.best) <= MaxID
    /\ HasRoom(heap, 2 * (CloneCost(bps.best) + 1))
    /\ LET c == Clone(heap, bps.best)
       IN  IF c.bp = Nil
           THEN /\ last' = Last("RAttempt", "c", TRUE, "clone", 0)
                /\ UNCHANGED <<heap, bps, bestM, pc>>
           ELSE LET res == InsertNeuronOfTypeBetweenInputsAndOutputs(c.h, c.bp, kind, s)
                IN  IF res.err
                    THEN /\ last' = Last("RAttempt", "c", TRUE, kind, 0)
                         /\ UNCHANGED <<heap, bps, bestM, pc>>
                    ELSE /\ e \in Eligible(res.h, res.bp)
                         /\ LET hc == HillClimbWeightUpdate(res.h, res.bp, e[1], e[2], 1,
                                                            candM, curM, v)
                                h2 == Evaluated(hc.h, hc.bp, v)
                                accept == Better(m, bestM)
                            IN  /\ IF accept THEN Store(h2, [bps EXCEPT !.best = hc.bp])
                                   ELSE UNCHANGED <<heap, bps>>
                                /\ bestM' = IF accept THEN m ELSE bestM
                                /\ pc' = IF bestM'[1] = 100 THEN "break" ELSE "loop"
                                /\ last' = Last("RAttempt", "best", ~accept, kind, 0)
    /\ iter' = iter + 1
    /\ UNCHANGED <<orch, seqIdle, bestAttempt, panicked>>

\* func (bp *Blueprint) RandomizeWeights(): a new bias, connection weights and
\* lstm gate weights for the non-input neurons, drawn from the stream.
RandomizeWeights(h, bp, s) ==
    LET mine == {bp.Neurons[id] : id \in NeuronIDs(bp)}
        rnd(n) ==
            IF n.Type = "input" THEN n
            ELSE [n EXCEPT
                    !.Bias = Rand(s, DrawAt(n.ID, 1)),
                    !.Connections = [i \in 1..Len(@) |->
                        <<@[i][1], Rand(s, DrawAt(n.ID, 1 + i))>>],
                    !.GateWeights =
                        IF n.Type = "lstm"
                        THEN [g \in DOMAIN @ |->
                                [i \in 1..Len(@[g]) |-> Rand(s, DrawAt(n.ID, i))]]
                        ELSE @]
    IN  [r \in Refs |-> IF r \in mine THEN rnd(h[r]) ELSE h[r]]

\* func (bp *Blueprint) MutateArchitecture(): with addKind # "" a neuron of that
\* kind is inserted (an error is printed and ignored); with removeID # 0 and a
\* table larger than the two ID lists, that node is removed if it is neither
\* an input nor an output.
MutateArchitecture(h, bp, addKind, s, removeID) ==
    LET ins == IF addKind = "" THEN Res(h, bp, FALSE)
               ELSE InsertNeuronOfTypeBetweenInputsAndOutputs(h, bp, addKind, s)
        removable == {id \in NeuronIDs(ins.bp) :
                         ~isInputNode(ins.bp, id) /\ ~isOutputNode(ins.bp, id)}
    IN  IF /\ removeID # 0
           /\ Cardinality(NeuronIDs(ins.bp)) > Len(ins.bp.InputNodes) + Len(ins.bp.OutputNodes)
           /\ removeID \in removable
        THEN RemoveNeuron(ins.h, ins.bp, removeID)
        ELSE Res(ins.h, ins.bp, FALSE)

\* population[i - 1] and newPopulation[i - 1]
Pop(i) == <<"p1", "p2">>[i]

NewPop(i) == <<"n1", "n2">>[i]

\* the metric triples the evaluations of EvolutionaryTrain return
EvoOutcomes == {<<0, 0, 0>>, <<50, 50, 50>>, <<100, 100, 100>>}

\* Three times the fitness score (exactAccuracy + generousAccuracy +
\* forgivenessAccuracy) / 3.0 of evolutionary.go lines 33 and 58.
Score(m) == m[1] + m[2] + m[3]

\* Every individual of the population has been evaluated.
RECURSIVE EvaluatedAll(_, _, _)
EvaluatedAll(h, i, v) ==
    IF i > snap.populationSize THEN h
    ELSE EvaluatedAll(Evaluated(h, bps[Pop(i)], v), i + 1, v)

\* func selectBestIndividuals(population, scores, num): the indexes of the num
\* best individuals in descending order of score.  sort.Slice is not stable,
\* so individuals of equal score come in any order.
selectBestIndividuals(scores, num) ==
    {q \in [1..num -> DOMAIN scores] :
        /\ \A i, j \in 1..num : i < j => (q[i] # q[j] /\ scores[q[i]] >= scores[q[j]])
        /\ \A k \in DOMAIN scores \ Range(q) : \A i \in 1..num : scores[k] <= scores[q[i]]}

\* A final selection that keeps population[0].
FinalFirst(scores) == 1

\* evolutionary.go lines 54-63 from individual k on: the index of bestIndividual.
RECURSIVE FinalLoop(_, _, _, _)
FinalLoop(scores, k, bestIndividual, bestScore) ==
    IF k > Len(scores) THEN bestIndividual
    ELSE IF scores[k] > bestScore THEN FinalLoop(scores, k + 1, k, scores[k])
    ELSE FinalLoop(scores, k + 1, bestIndividual, bestScore)

\* bestIndividual := population[0]; bestScore := 0.0; the loop over the population
FinalBest(scores) == FinalLoop(scores, 1, 1, 0)

\* evolutionary.go lines 17-23: the next individual of the initial population
\* is a clone of bp, used without a nil check.
ESetup(s, addKind, removeID) ==
    /\ orch = "EvolutionaryTrain" /\ pc \in {"start", "populate"}
    /\ iter < snap.populationSize
    /\ HasRoom(heap, CloneCost(bps.bp) + 1)
    /\ LET c == Clone(heap, bps.bp)
       IN  IF c.bp = Nil
           THEN Panic("ESetup", Pop(iter + 1))
           ELSE LET h2 == RandomizeWeights(c.h, c.bp, s)
                    res == MutateArchitecture(h2, c.bp, addKind, <<1, -1>>, removeID)
                IN  /\ Store(res.h, [bps EXCEPT ![Pop(iter + 1)] = res.bp])
                    /\ iter' = iter + 1
                    /\ pc' = IF iter + 1 < snap.populationSize THEN "populate"
                             ELSE IF snap.generations > 0 THEN "score" ELSE "final"
                    /\ last' = Last("ESetup", Pop(iter + 1), FALSE, addKind, removeID)
                    /\ UNCHANGED <<bestM, bestAttempt, panicked>>
    /\ UNCHANGED <<orch, seqIdle>>

\* evolutionary.go lines 29-37: evaluate every individual (ms are the metric
\* triples returned) and select the populationSize/2 best; connCh holds
\* bestIndividuals.
EScore(ms, v, best) ==
    /\ orch = "EvolutionaryTrain" /\ pc = "score"
    /\ Len(ms) = snap.populationSize
    /\ best \in selectBestIndividuals([i \in 1..snap.populationSize |-> Score(ms[i])],
                                      snap.populationSize \div 2)
    /\ heap' = EvaluatedAll(heap, 1, v)
    /\ connCh' = [i \in 1..Len(best) |-> Pop(best[i])]
    /\ iter' = 0
    /\ pc' = "breed"
    /\ last' = Last("EScore", IF best = <<>> THEN "" ELSE Pop(best[1]), FALSE, "", 0)
    /\ UNCHANGED <<bps, nOps, orch, wk, chan, bestAttempt, wg, committed, bestM, snap, panicked>>

\* evolutionary.go lines 42-43 when bestIndividuals is empty: rand.Intn(0)
\* panics ("invalid argument to Intn").
EBreedNone ==
    /\ orch = "EvolutionaryTrain" /\ pc = "breed"
    /\ iter < snap.populationSize
    /\ Len(connCh) = 0
    /\ Panic("EBreed", "")
    /\ UNCHANGED <<connCh, committed>>
    /\ UNCHANGED <<nOps, orch, wk, chan, wg, snap>>

\* evolutionary.go lines 41-50: the next child is the crossover of two of the
\* best individuals, mutated; after the last child the new population replaces
\* the population.
EBreed(i1, i2, pick, s, addKind, removeID) ==
    /\ orch = "EvolutionaryTrain" /\ pc = "breed"
    /\ iter < snap.populationSize
    /\ i1 \in 1..Len(connCh) /\ i2 \in 1..Len(connCh)
    /\ HasRoom(heap, CloneCost(bps[connCh[i1]]) + 2)
    /\ addKind = "" \/ generateUniqueNeuronID(bps[connCh[i1]]) <= MaxID
    /\ LET child == Crossover(heap, bps[connCh[i1]], bps[connCh[i2]], pick)
       IN  IF child.err
           THEN /\ Panic("EBreed", NewPop(iter + 1))
                /\ UNCHANGED <<connCh, committed>>
           ELSE LET w == MutateWeights(child.h, child.bp, s)
                    a == MutateArchitecture(w.h, w.bp, addKind, <<1, -1>>, removeID)
                    lastChild == iter + 1 = snap.populationSize
                    bs == [bps EXCEPT ![NewPop(iter + 1)] = a.bp]
                    swapped == [bs EXCEPT !.p1 = bs.n1, !.p2 = bs.n2, !.n1 = Nil, !.n2 = Nil]
                IN  /\ Store(a.h, IF lastChild THEN swapped ELSE bs)
                    /\ iter' = IF lastChild THEN 0 ELSE iter + 1
                    /\ committed' = IF lastChild THEN committed + 1 ELSE committed
                    /\ connCh' = IF lastChild THEN <<>> ELSE connCh
                    /\ pc' = IF ~lastChild THEN "breed"
                             ELSE IF committed + 1 < snap.generations THEN "score" ELSE "final"
                    /\ last' = Last("EBreed", NewPop(iter + 1), FALSE, addKind, removeID)
                    /\ UNCHANGED <<bestM, bestAttempt, panicked>>
    /\ UNCHANGED <<nOps, orch, wk, chan, wg, snap>>

\* evolutionary.go lines 53-66: evaluate every individual of the final
\* population and copy the best one into *bp.  chan holds the scores of this
\* evaluation.
EFinish(ms, v) ==
    /\ orch = "EvolutionaryTrain" /\ pc = "final"
    /\ Len(ms) = snap.populationSize
    /\ LET scores == [i \in 1..snap.populationSize |-> Score(ms[i])]
           bestIndividual == FinalBest(scores)
       IN  /\ Store(EvaluatedAll(heap, 1, v), [bps EXCEPT !.bp = bps[Pop(bestIndividual)]])
           /\ chan' = scores
           /\ bestM' = ms[bestIndividual]
           /\ last' = Last("EFinish", Pop(bestIndividual), FALSE, "", 0)
    /\ pc' = "done"
    /\ UNCHANGED <<nOps, orch, wk, connCh, bestAttempt, wg, iter, committed, snap, panicked>>

\* unnamed/part_001 lines 13-55: HillClimbWeightUpdate clones bp, perturbs one
\* weight of the clone, and evaluates the clone (candM) and bp (curM).
HEvaluate(e, delta, candM, curM, v) ==
    /\ orch = "HillClimb" /\ pc \in {"start", "loop"} /\ iter < MaxIter
    /\ HasRoom(heap, CloneCost(bps.bp))
    /\ LET c == Clone(heap, bps.bp)
       IN  IF c.bp = Nil
           THEN /\ iter' = iter + 1
                /\ pc' = "loop"
                /\ last' = Last("HEvaluate", "c", TRUE, "clone", 0)
                /\ UNCHANGED <<heap, bps, bestM, bestAttempt>>
           ELSE /\ e \in Eligible(c.h, c.bp)
                /\ LET h2 == Perturb(c.h, c.bp, e[1], e[2], delta)
                   IN  Store(Evaluated(Evaluated(h2, c.bp, v), bps.bp, v),
                             [bps EXCEPT !.c = c.bp])
                /\ bestAttempt' = Attempt(0, Nil, candM)
                /\ bestM' = curM
                /\ pc' = "decide"
                /\ last' = Last("HEvaluate", "c", FALSE, "", e[1])
                /\ UNCHANGED iter
    /\ UNCHANGED <<orch, seqIdle, panicked>>

\* unnamed/part_001 lines 33-41: an iteration of the selection loop that draws
\* a neuron it does not use (an input node, or a neuron without connections)
\* and goes round again.  The clone made at line 15 is the same on every round.
HRetry(randomNeuronID) ==
    /\ orch = "HillClimb" /\ pc \in {"start", "loop"} /\ iter < MaxIter
    /\ Marshalable(heap, bps.bp)
    /\ Exists(bps.bp, randomNeuronID)
    /\ \A k \in 1..MaxID : <<randomNeuronID, k>> \notin Eligible(heap, bps.bp)
    /\ last' = Last("HRetry", "c", TRUE, "", randomNeuronID)
    /\ UNCHANGED <<heap, bps, orch, pc, iter, bestM, bestAttempt, seqIdle, panicked>>

\* unnamed/part_001 lines 57-78: the clone replaces *bp when any of its metrics
\* is higher.  last.err tells that the change was rejected.
HDecide ==
    /\ orch = "HillClimb" /\ pc = "decide"
    /\ LET improved == AnyImproves(bestAttempt.m, bestM)
       IN  /\ Store(heap, [bps EXCEPT !.bp = IF improved THEN bps.c ELSE bps.bp, !.c = Nil])
           /\ bestM' = IF improved THEN bestAttempt.m ELSE bestM
           /\ last' = Last("HDecide", "bp", ~improved, "", 0)
    /\ bestAttempt' = Nil
    /\ iter' = iter + 1
    /\ pc' = "loop"
    /\ UNCHANGED <<orch, seqIdle, panicked>>

NextSeq ==
    \/ NStart
    \/ \E kind \in {"dense", "lstm"}, s \in InsertStreams, m \in Outcomes, v \in EvalValues :
          NAttempt(kind, s, m, v)
    \/ NFinish
    \/ XStart
    \/ \E kind \in NasKinds, s \in InsertStreams, m \in Outcomes, v \in EvalValues :
          XAttempt(kind, s, m, v)
    \/ XFinish
    \/ RStart
    \/ \E kind \in NasKinds, s \in InsertStreams, e \in IDs \X (1..MaxID),
          candM \in ClimbOutcomes, curM \in ClimbOutcomes, m \in Outcomes, v \in EvalValues :
          RAttempt(kind, s, e, candM, curM, m, v)
    \/ \E s \in MutStreams, addKind \in {"", "dense"}, removeID \in {0} \cup IDs :
          ESetup(s, addKind, removeID)
    \/ \E n \in 1..PopulationSize : \E ms \in [1..n -> EvoOutcomes], v \in EvalValues :
          \E best \in selectBestIndividuals([i \in 1..n |-> Score(ms[i])], n \div 2) :
              EScore(ms, v, best)
    \/ EBreedNone
    \/ \E i1, i2 \in 1..PopulationSize, pick \in Picks, s \in MutStreams,
          addKind \in {"", "dense"}, removeID \in {0, 4} :
          EBreed(i1, i2, pick, s, addKind, removeID)
    \/ \E n \in 1..PopulationSize : \E ms \in [1..n -> EvoOutcomes], v \in EvalValues :
          EFinish(ms, v)
    \/ \E e \in IDs \X (1..MaxID), delta \in ClimbDeltas, candM \in Outcomes,
          curM \in ClimbOutcomes, v \in EvalValues : HEvaluate(e, delta, candM, curM, v)
    \/ \E id \in IDs : HRetry(id)
    \/ HDecide

SpecSeq == InitSeq /\ [][NextSeq]_vars

(***************************************************************************)
(* Properties of SpecSeq.                                                   *)
(***************************************************************************)
CommitOps == {"NAttempt", "HDecide"}

\* C5 as stated: a commit of SimpleNAS or an accepted HillClimbWeightUpdate
\* never lowers the exact accuracy.
C5_Original ==
    [][(last'.op \in CommitOps /\ ~last'.err) => bestM'[1] >= bestM[1]]_vars

\* C5, amended: a commit of SimpleNAS or an accepted HillClimbWeightUpdate
\* raises at least one of the three metrics (exact, generous, forgiveness) above
\* the value it is compared with.
C5_CommitRaisesSomeMetric ==
    [][(last'.op \in CommitOps /\ ~last'.err) => \E i \in 1..3 : bestM'[i] > bestM[i]]_vars

\* A change was committed whose exact accuracy is lower than the initial one.
C5_Witness ==
    /\ last.op \in CommitOps /\ ~last.err
    /\ bestM = <<40, 60, 50>>

\* C9: no orchestrator ends in a fatal error (a nil-pointer panic) after a
\* clone that failed.
C9_NoFatalError == ~panicked

\* The tracked best value of an early-exit metric of the running search is 100%.
Perfect ==
    IF orch = "SimpleNASWithoutCrossover" THEN \E i \in SelectedMetrics : bestM[i] = 100
    ELSE bestM[1] = 100

\* C15: SimpleNASWithoutCrossover and SimpleNASWithRandomConnections start a
\* round only while at most maxIterations rounds were started and the tracked
\* best of no early-exit metric is 100%, the metrics of the initial model
\* included.
C15_NoRoundAfterPerfect ==
    [][last'.op \in {"XAttempt", "RAttempt"} => (iter <= MaxIter /\ ~Perfect)]_vars

\* The same without the rounds that start while the tracked best is the
\* initial model's: a round follows a round that ran to its end only when
\* that round left no early-exit metric at 100%.
C15_ExitAfterCompletedRound ==
    [][(/\ last'.op \in {"XAttempt", "RAttempt"}
        /\ last.op = last'.op /\ last.on # "c" /\ isValidNeuronType(last.kind))
          => (iter <= MaxIter /\ ~Perfect)]_vars

\* C14: when EvolutionaryTrain returns, bp is an individual of the final
\* population, and no individual of that population has a higher fitness score
\* in the final evaluation.
C14_BestIsMaximal ==
    (orch = "EvolutionaryTrain" /\ pc = "done") =>
        \E i \in 1..snap.populationSize :
            /\ bps.bp = bps[Pop(i)]
            /\ \A j \in 1..snap.populationSize : chan[j] <= chan[i]

\* EvolutionaryTrain has returned after one generation, the second individual
\* of the final population scored higher than the first, and bp is the second.
C14_Witness ==
    /\ orch = "EvolutionaryTrain" /\ pc = "done" /\ committed = Generations
    /\ snap.populationSize = 2
    /\ chan[2] > chan[1]
    /\ bps.bp = bps.p2 /\ bps.bp # bps.p1

(***************************************************************************)
(* SpecEval: the forward pass and the evaluator, computed on concrete       *)
(* graphs.  A float64 x is held as the integer x * Scale; math.Exp is       *)
(* interpolated between the points of ExpKnots.                             *)
(***************************************************************************)
Scale == 100

Mul(a, b) == (a * b) \div Scale

Abs(x) == IF x < 0 THEN -x ELSE x

ExpKnots ==
    <<<<-500, 1>>, <<-400, 2>>, <<-300, 5>>, <<-200, 14>>, <<-100, 37>>, <<-50, 61>>,
      <<0, 100>>, <<50, 165>>, <<100, 272>>>>

\* math.Exp(x), for x up to 1.0
ExpFix(x) ==
    IF x < ExpKnots[1][1] THEN 0
    ELSE IF x >= ExpKnots[Len(ExpKnots)][1] THEN ExpKnots[Len(ExpKnots)][2]
    ELSE LET k == CHOOSE i \in 1..(Len(ExpKnots) - 1) :
                     ExpKnots[i][1] <= x /\ x < ExpKnots[i + 1][1]
             a == ExpKnots[k]
             b == ExpKnots[k + 1]
         IN  a[2] + ((b[2] - a[2]) * (x - a[1])) \div (b[1] - a[1])

RECURSIVE SumSeq(_)
SumSeq(seq) == IF seq = <<>> THEN 0 ELSE Head(seq) + SumSeq(Tail(seq))

\* func Softmax(inputs []float64) []float64
Softmax(inputs) ==
    LET max == SetMax(Range(inputs))
        expInputs == [i \in 1..Len(inputs) |-> ExpFix(inputs[i] - max)]
        expSum == SumSeq(expInputs)
    IN  [i \in 1..Len(inputs) |-> (expInputs[i] * Scale) \div expSum]

\* func Sigmoid(x float64) float64
Sigmoid(x) == (Scale * Scale) \div (Scale + ExpFix(-x))

\* (e - 1) / (e + 1) for e = math.Exp(2x)
TanhOfExp(e) == ((e - Scale) * Scale) \div (e + Scale)

\* func Tanh(x float64) float64
Tanh(x) == TanhOfExp(ExpFix(2 * x))

\* utils.go lines 485-528: the function the table holds under a name
ActivationFunc(name, x) ==
    CASE name = "relu" -> IF x > 0 THEN x ELSE 0
      [] name = "sigmoid" -> Sigmoid(x)
      [] name = "tanh" -> Tanh(x)
      [] name = "leaky_relu" -> IF x > 0 THEN x ELSE x \div 100
      [] name = "elu" -> IF x >= 0 THEN x ELSE ExpFix(x) - Scale
      [] OTHER -> x

\* func (bp *Blueprint) ApplyScalarActivation: the function bp's table holds
\* under the name; a name that is not in bp's table is treated as linear.
ApplyScalarActivation(bp, value, activation) ==
    IF activation \in bp.ScalarActivationMap THEN ActivationFunc(activation, value) ELSE value

\* blueprint.go lines 150-157: the weighted values of the sources that exist.
InputValues(h, bp, n) ==
    LET present == SelectSeq(n.Connections, LAMBDA c : Exists(bp, c[1]))
    IN  [i \in 1..Len(present) |-> Mul(Deref(h, bp, present[i][1]).Value, present[i][2])]

Gates == {"input", "forget", "output", "cell"}

\* neuron.go lines 91-96: weights[gate][i] is read for every i < len(inputs); an
\* index past the end of a gate vector (every index, for the nil map) panics.
GateIndexPanics(n, inputs) == \E gate \in Gates : Len(n.GateWeights[gate]) < Len(inputs)

\* func (bp *Blueprint) ProcessLSTMNeuron(neuron *Neuron, inputs []float64)
Weighted(n, inputs, gate) ==
    SumSeq([i \in 1..Len(inputs) |-> Mul(inputs[i], n.GateWeights[gate][i])])

\* neuron.go lines 104-105: the new cell state and the value it gives
UpdateCell(n, cellState, outputGate) ==
    [n EXCEPT !.CellState = cellState, !.Value = Mul(Tanh(cellState), outputGate)]

ProcessLSTMNeuron(n, inputs) ==
    UpdateCell(n,
               Mul(n.CellState, Sigmoid(Weighted(n, inputs, "forget") + n.Bias))
                   + Mul(Tanh(Weighted(n, inputs, "cell") + n.Bias),
                         Sigmoid(Weighted(n, inputs, "input") + n.Bias)),
               Sigmoid(Weighted(n, inputs, "output") + n.Bias))

\* func (bp *Blueprint) ProcessNeuron, for the dense, rnn and lstm kinds: the
\* rnn adds the value the neuron holds from its last run.
ProcessNeuron(bp, n, inputs) ==
    IF n.Type = "input" THEN n
    ELSE IF n.Type = "lstm" THEN ProcessLSTMNeuron(n, inputs)
    ELSE IF n.Type = "rnn"
    THEN [n EXCEPT !.Value = ApplyScalarActivation(bp, n.Bias + SumSeq(inputs) + n.Value,
                                                   n.Activation)]
    ELSE [n EXCEPT !.Value = ApplyScalarActivation(bp, n.Bias + SumSeq(inputs), n.Activation)]

\* The outcome of a run over the graph: the heap it leaves, or a panic.
Ran(h, crashed) == [h |-> h, crashed |-> crashed]

\* blueprint.go lines 143-161: for id := 1; id <= len(bp.Neurons); id++
RECURSIVE ProcessAll(_, _, _)
\* blueprint.go line 160: bp.ProcessNeuron(neuron, inputValues, t), then the
\* next ID.
ProcessWith(h, bp, id, n, inputValues) ==
    IF n.Type = "lstm" /\ GateIndexPanics(n, inputValues) THEN Ran(h, TRUE)
    ELSE ProcessAll([h EXCEPT ![bp.Neurons[id]] = ProcessNeuron(bp, n, inputValues)], bp, id + 1)

ProcessAt(h, bp, id, n) ==
    IF n.Type = "input" THEN ProcessAll(h, bp, id + 1)
    ELSE ProcessWith(h, bp, id, n, InputValues(h, bp, n))

ProcessAll(h, bp, id) ==
    IF id > Cardinality(NeuronIDs(bp)) THEN Ran(h, FALSE)
    ELSE IF ~Exists(bp, id) THEN ProcessAll(h, bp, id + 1)
    ELSE ProcessAt(h, bp, id, Deref(h, bp, id))

\* blueprint.go lines 137-162: for t := 0; t < timesteps; t++
RECURSIVE Timesteps(_, _, _)
AfterTimestep(r, bp, t) == IF r.crashed THEN r ELSE Timesteps(r.h, bp, t)

Timesteps(h, bp, t) ==
    IF t = 0 THEN Ran(h, FALSE) ELSE AfterTimestep(ProcessAll(h, bp, 1), bp, t - 1)

\* blueprint.go lines 143-147: the IDs a timestep hands to ProcessNeuron, in
\* the order of the loop.
RECURSIVE Visited(_, _, _)
Visited(h, bp, id) ==
    IF id > Cardinality(NeuronIDs(bp)) THEN <<>>
    ELSE IF ~Exists(bp, id) \/ Deref(h, bp, id).Type = "input" THEN Visited(h, bp, id + 1)
    ELSE <<id>> \o Visited(h, bp, id + 1)

\* neuron.go lines 189-194: softmaxValues[i] is read at the position i of the
\* ID in OutputNodes; a position past the collected values panics.
RECURSIVE AssignSoftmax(_, _, _, _)
AssignSoftmax(h, bp, softmaxValues, i) ==
    IF i > Len(bp.OutputNodes) THEN Ran(h, FALSE)
    ELSE IF ~Exists(bp, bp.OutputNodes[i]) THEN AssignSoftmax(h, bp, softmaxValues, i + 1)
    ELSE IF i > Len(softmaxValues) THEN Ran(h, TRUE)
    ELSE AssignSoftmax([h EXCEPT ![bp.Neurons[bp.OutputNodes[i]]].Value = softmaxValues[i]],
                       bp, softmaxValues, i + 1)

\* neuron.go lines 178-183: the values of the output nodes that exist
OutputValues(h, bp) ==
    LET present == SelectSeq(bp.OutputNodes, LAMBDA id : Exists(bp, id))
    IN  [i \in 1..Len(present) |-> Deref(h, bp, present[i]).Value]

\* func (bp *Blueprint) ApplySoftmax(); Softmax reads inputs[0] and panics on
\* an empty slice.
ApplySoftmaxOf(h, bp, outputValues) ==
    IF Len(outputValues) = 0 THEN Ran(h, TRUE)
    ELSE AssignSoftmax(h, bp, Softmax(outputValues), 1)

ApplySoftmax(h, bp) == ApplySoftmaxOf(h, bp, OutputValues(h, bp))

\* blueprint.go line 165: bp.ApplySoftmax() when the timesteps have run
AfterTimesteps(r, bp) == IF r.crashed THEN r ELSE ApplySoftmax(r.h, bp)

\* blueprint.go lines 127-134: the input values are stored
SetInputs(h, bp, inputs) ==
    [r \in Refs |->
        IF \E id \in DOMAIN inputs : Exists(bp, id) /\ bp.Neurons[id] = r
        THEN [h[r] EXCEPT !.Value =
                 inputs[CHOOSE id \in DOMAIN inputs : Exists(bp, id) /\ bp.Neurons[id] = r]]
        ELSE h[r]]

\* func (bp *Blueprint) Forward(inputs map[int]float64, timesteps int)
Forward(h, bp, inputs, timesteps) ==
    AfterTimesteps(Timesteps(SetInputs(h, bp, inputs), bp, timesteps), bp)

\* func (bp *Blueprint) GetOutputs() map[int]float64
GetOutputs(h, bp) ==
    [id \in {o \in Range(bp.OutputNodes) : Exists(bp, o)} |-> Deref(h, bp, id).Value]

\* type Session struct
Session(inputs, expected, timesteps) ==
    [InputVariables |-> inputs, ExpectedOutput |-> expected, Timesteps |-> timesteps]

\* func softmaxMap(m map[int]float64) map[int]float64
softmaxMap(m) ==
    LET keys == CHOOSE q \in [1..Cardinality(DOMAIN m) -> DOMAIN m] :
                    \A i, j \in DOMAIN q : i # j => q[i] # q[j]
        sumExp == SumSeq([i \in DOMAIN keys |-> ExpFix(m[keys[i]])])
    IN  [k \in DOMAIN m |-> (ExpFix(m[k]) * Scale) \div sumExp]

\* func argmaxMap(m map[int]float64) int: the first key of the iteration that
\* holds the maximum.  The order in which Go ranges over a map is not
\* specified, so any key that holds the maximum can be returned.
argmaxMap(m) == {k \in DOMAIN m : \A j \in DOMAIN m : m[j] <= m[k]}

\* func calculateGenerousValue(predicted, expected map[int]float64) float64
calculateGenerousValue(predicted, expected) ==
    LET both == DOMAIN expected \cap DOMAIN predicted
        keys == CHOOSE q \in [1..Cardinality(both) -> both] :
                    \A i, j \in DOMAIN q : i # j => q[i] # q[j]
        totalDifference == SumSeq([i \in DOMAIN keys |->
                                      Abs(predicted[keys[i]] - expected[keys[i]])])
    IN  IF DOMAIN predicted = {} \/ DOMAIN expected = {} \/ both = {} THEN 0
        ELSE LET generousValue == Scale - (totalDifference \div Cardinality(both))
             IN  IF generousValue < 0 THEN 0 ELSE generousValue

\* The loop of isDecileConsistent over the keys of `expected` in the order
\* `order`, from position k on, with the reference decile `ref`.
RECURSIVE DecileLoop(_, _, _, _, _)
DecileLoop(predicted, expected, order, k, ref) ==
    IF k > Len(order) THEN TRUE
    ELSE IF order[k] \notin DOMAIN predicted THEN FALSE
    ELSE LET difference == Abs(predicted[order[k]] - expected[order[k]])
             d == (difference * 10) \div Scale
             decile == IF d > 9 THEN 9 ELSE d
         IN  IF ref = 0 THEN DecileLoop(predicted, expected, order, k + 1, decile)
             ELSE IF ref # decile THEN FALSE
             ELSE DecileLoop(predicted, expected, order, k + 1, ref)

\* func isDecileConsistent(predicted, expected map[int]float64) bool: the
\* results for the orders in which the map `expected` can be ranged over.
isDecileConsistent(predicted, expected) ==
    {DecileLoop(predicted, expected, order, 1, 0) :
        order \in {q \in [1..Cardinality(DOMAIN expected) -> DOMAIN expected] :
                      \A i, j \in DOMAIN q : i # j => q[i] # q[j]}}

\* eval.go lines 25-27 for the sessions from position k on: the graph after the
\* runs and the outputs read after each run.
RECURSIVE RunSessions(_, _, _, _, _)
AfterRun(r, h, bp, sessions, k, outs) ==
    IF r.crashed THEN [h |-> h, outs |-> outs, crashed |-> TRUE]
    ELSE RunSessions(r.h, bp, sessions, k + 1, Append(outs, GetOutputs(r.h, bp)))

RunSessions(h, bp, sessions, k, outs) ==
    IF k > Len(sessions) THEN [h |-> h, outs |-> outs, crashed |-> FALSE]
    ELSE AfterRun(Forward(h, bp, sessions[k].InputVariables, sessions[k].Timesteps),
                  h, bp, sessions, k, outs)

Count(flags) == Cardinality({i \in DOMAIN flags : flags[i]})

\* The float64 that is not a number (0.0 / 0.0).
NaN == 1000000

\* total / float64(len(sessions)): a float64 division does not panic on a zero
\* divisor; every total is 0 when the list is empty, and 0/0 is NaN (which
\* stays NaN when multiplied by 100).
Quot(total, n) == IF n = 0 THEN NaN ELSE total \div n

\* func (bp *Blueprint) EvaluateModelPerformance(sessions []Session): the graph
\* after the runs, and the metric triples (exact, generous, decile consistency)
\* the call can return; a call that panics returns nothing (the empty tuple
\* stands for that).
Metrics(run, sessions) ==
    LET n == Len(sessions)
        exactOK(i) == {predClass = expClass :
                          predClass \in argmaxMap(softmaxMap(run.outs[i])),
                          expClass \in argmaxMap(sessions[i].ExpectedOutput)}
        decileOK(i) == isDecileConsistent(run.outs[i], sessions[i].ExpectedOutput)
        totalGenerousValue ==
            SumSeq([i \in 1..n |-> calculateGenerousValue(run.outs[i], sessions[i].ExpectedOutput)])
    IN  IF run.crashed THEN [h |-> run.h, metrics |-> {<<>>}, crashed |-> TRUE]
        ELSE
        [h |-> run.h, crashed |-> FALSE,
         metrics |-> {<<Quot(Count(ex) * 100, n), Quot(totalGenerousValue, n),
                        Quot(Count(de) * 100, n)>> :
                         ex \in {f \in [1..n -> BOOLEAN] : \A i \in 1..n : f[i] \in exactOK(i)},
                         de \in {f \in [1..n -> BOOLEAN] : \A i \in 1..n : f[i] \in decileOK(i)}}]

EvaluateModelPerformance(h, bp, sessions) ==
    Metrics(RunSessions(h, bp, sessions, 1, <<>>), sessions)

\* The session lists the evaluator is called with: one input (node 1), two
\* classes (nodes 2 and 3).
SessionSets ==
    <<<<Session((1 :> 0), (2 :> 0) @@ (3 :> Scale), 1)>>,
      <<Session((1 :> Scale), (2 :> Scale) @@ (3 :> 0), 1),
        Session((1 :> 0), (2 :> 0) @@ (3 :> Scale), 2)>>,
      <<>>>>

EvalKinds == {"dense", "rnn", "lstm"}

\* value, bias, activation draw and weight of an inserted neuron
EvalStreams == {<<90, 0, 0, 90>>, <<0, 10, 1, 50>>}

\* NewBlueprint, AddInputNodes({1}), AddOutputNodes({2, 3}): node 2 reads the
\* input with weight 0.9, node 3 has the bias 0.5.
EvalGraphWithInput ==
    [h  |-> [r \in Refs |->
                CASE r = 1 -> Neuron(1, "input", 0, 0, <<>>, "linear", NoGates)
                  [] r = 2 -> Neuron(2, "dense", 0, 0, <<<<1, 90>>>>, "linear", NoGates)
                  [] r = 3 -> Neuron(3, "dense", 0, 50, <<>>, "linear", NoGates)
                  [] OTHER -> NoNeuron],
     bp |-> InitializeActivationFunctions(
                Blueprint([id \in IDs |-> IF id <= 3 THEN id ELSE NoRef], <<1>>, <<2, 3>>))]

\* NewBlueprint, AddOutputNodes({1, 2}): a graph without input nodes.
EvalGraphNoInput ==
    [h  |-> [r \in Refs |->
                CASE r = 1 -> Neuron(1, "dense", 0, 50, <<>>, "linear", NoGates)
                  [] r = 2 -> Neuron(2, "dense", 0, 0, <<>>, "linear", NoGates)
                  [] OTHER -> NoNeuron],
     bp |-> InitializeActivationFunctions(
                Blueprint([id \in IDs |-> IF id <= 2 THEN id ELSE NoRef], <<>>, <<1, 2>>))]

InitEval ==
    /\ \E g \in {EvalGraphWithInput, EvalGraphNoInput} :
          /\ heap = g.h
          /\ bps = [g |-> g.bp]
    /\ last = Last("new", "g", FALSE, "", 0)
    /\ nOps = 0
    /\ orch = "none" /\ pc = "idle" /\ wk = <<>> /\ chan = <<>> /\ wg = 0
    /\ connCh = <<>> /\ bestAttempt = Nil
    /\ iter = 0 /\ committed = 0 /\ bestM = <<>> /\ snap = Nil /\ panicked = FALSE

evalIdle == <<orch, pc, wk, chan, connCh, bestAttempt, wg, iter, committed, snap>>

\* A neuron is inserted into the graph.
EvInsert(kind, s) ==
    /\ nOps < MaxOps /\ ~panicked
    /\ generateUniqueNeuronID(bps.g) <= MaxID /\ HasRoom(heap, 1)
    /\ LET res == InsertNeuronOfTypeBetweenInputsAndOutputs(heap, bps.g, kind, s)
       IN  /\ Store(res.h, [bps EXCEPT !.g = res.bp])
           /\ last' = Last("insert", "g", res.err, kind, 0)
    /\ nOps' = nOps + 1
    /\ UNCHANGED <<bestM, panicked, evalIdle>>

\* A neuron is inserted by the rewiring variant.
EvInsertRewire(kind, s) ==
    /\ nOps < MaxOps /\ ~panicked
    /\ generateUniqueNeuronID(bps.g) <= MaxID /\ HasRoom(heap, 1)
    /\ LET res == InsertNeuronRewire(heap, bps.g, kind, s)
       IN  /\ Store(res.h, [bps EXCEPT !.g = res.bp])
           /\ last' = Last("insertRewire", "g", res.err, kind, 0)
    /\ nOps' = nOps + 1
    /\ UNCHANGED <<bestM, panicked, evalIdle>>

\* EvaluateModelPerformance is called on the graph with session list k and
\* returns the metrics m, which bestM records; a forward pass that panics ends
\* the program.  connCh records the IDs a timestep of the call processes.
EvEvaluate(k, m) ==
    /\ nOps < MaxOps /\ ~panicked
    /\ LET ev == EvaluateModelPerformance(heap, bps.g, SessionSets[k])
       IN  /\ m \in ev.metrics
           /\ Store(ev.h, bps)
           /\ bestM' = IF ev.crashed THEN bestM ELSE m
           /\ panicked' = ev.crashed
           /\ last' = Last("Evaluate", "g", ev.crashed, "", k)
    /\ connCh' = IF SessionSets[k] = <<>> THEN <<>> ELSE Visited(heap, bps.g, 1)
    /\ nOps' = nOps + 1
    /\ UNCHANGED <<orch, pc, wk, chan, bestAttempt, wg, iter, committed, snap>>

\* RemoveNeuron(neuronID) is called on the graph.
EvRemoveNeuron(neuronID) ==
    /\ nOps < MaxOps /\ ~panicked
    /\ Exists(bps.g, neuronID)
    /\ LET res == RemoveNeuron(heap, bps.g, neuronID)
       IN  /\ Store(res.h, [bps EXCEPT !.g = res.bp])
           /\ last' = Last("RemoveNeuron", "g", res.err, "", neuronID)
    /\ nOps' = nOps + 1
    /\ UNCHANGED <<bestM, panicked, evalIdle>>

\* neuron.go lines 355-372 and 381-383, utils.go lines 637-639 and 654: a worker
\* serializes the graph, decodes it into a new Blueprint and runs the copy on
\* the sessions of list k.  chan records the outputs the copy computes; the
\* copy is garbage afterwards.
EvIsolate(k) ==
    /\ nOps < MaxOps /\ ~panicked
    /\ Marshalable(heap, bps.g)
    /\ HasRoom(heap, CloneCost(bps.g))
    /\ LET newBP == Unmarshal(heap, Marshal(heap, bps.g))
           run == RunSessions(newBP.h, newBP.bp, SessionSets[k], 1, <<>>)
       IN  /\ chan' = run.outs
           /\ panicked' = run.crashed
           /\ last' = Last("isolate", "g", run.crashed, "", k)
    /\ nOps' = nOps + 1
    /\ UNCHANGED <<heap, bps, bestM, orch, pc, wk, connCh, bestAttempt, wg, iter, committed, snap>>

NextEval ==
    \/ \E k \in DOMAIN SessionSets : EvIsolate(k)
    \/ \E id \in IDs : EvRemoveNeuron(id)
    \/ \E kind \in EvalKinds, s \in EvalStreams : EvInsert(kind, s)
    \/ \E kind \in EvalKinds, s \in EvalStreams : EvInsertRewire(kind, s)
    \/ \E k \in DOMAIN SessionSets :
          \E m \in EvaluateModelPerformance(heap, bps.g, SessionSets[k]).metrics : EvEvaluate(k, m)

SpecEval == InitEval /\ [][NextEval]_vars

(***************************************************************************)
(* Properties of SpecEval.                                                  *)
(***************************************************************************)
\* C10: a call of EvaluateModelPerformance that directly follows a call with
\* the same session list, on the same graph, returns the same metric triple.
C10_EvaluationRepeatable ==
    [][(last.op = "Evaluate" /\ last'.op = "Evaluate" /\ last'.target = last.target)
          => bestM' = bestM]_vars

\* x is a number between lo and hi.
InRange(x, lo, hi) == x # NaN /\ lo <= x /\ x <= hi

\* C11: the three accuracies a call of EvaluateModelPerformance returns, for
\* every graph and every session list (the empty one too), are numbers of
\* [0,100].  (The generous accuracy is held multiplied by Scale.)
C11_MetricsInRange ==
    last.op = "Evaluate" =>
        /\ InRange(bestM[1], 0, 100)
        /\ InRange(bestM[2], 0, 100 * Scale)
        /\ InRange(bestM[3], 0, 100)

\* The same for the calls with at least one session.
C11_NonEmptyInRange ==
    (last.op = "Evaluate" /\ SessionSets[last.target] # <<>>) =>
        /\ InRange(bestM[1], 0, 100)
        /\ InRange(bestM[2], 0, 100 * Scale)
        /\ InRange(bestM[3], 0, 100)

\* The neuron an insertion has just added: the one with the largest ID.
Newest(h, bp) == Deref(h, bp, SetMax(NeuronIDs(bp)))

Inserts == {"insert", "insertRewire"}

\* An output ID of the graph has no node in the table.
MissingOutput == \E i \in 1..Len(bps.g.OutputNodes) : ~Exists(bps.g, bps.g.OutputNodes[i])

Starved(w) ==
    /\ orch = "TryAdd" /\ pc = "twait"
    /\ wk[w].pc = "receive" /\ connCh = <<>> /\ wk["gen"].pc = "done"

\* C18: TryAddConnections always returns: once the workers are started, every
\* worker eventually stops waiting on connectionCh and the wait-group is
\* released.
C18_WaitGroupReleased == (orch = "TryAdd" /\ pc = "twait") ~> (wg = 0)

\* A starved worker stays starved: nothing sends a pair or closes the channel.
C18_StarvedForever == [][\A w \in Workers : Starved(w) => Starved(w)']_vars

\* C19: when TryAddConnections overwrites bp and when it has returned (and
\* closed connectionCh), the generator goroutine has finished; the generator
\* neither sends on the closed channel nor reads bp while bp is replaced.
C19_GeneratorFinishedFirst ==
    (orch = "TryAdd" /\ pc \in {"replace", "done"} /\ "gen" \in DOMAIN wk) =>
        (wk["gen"].pc = "done" /\ ~panicked)

\* The generator sends only while the function has not returned.
C19_NoSendAfterReturn ==
    ~(orch = "TryAdd" /\ last.op = "TGenerate" /\ last.kind = "closed")

(***************************************************************************)
(* Properties of LearnOneDataItemAtATime (SpecLearnFair).                   *)
(***************************************************************************)
\* attemptCh is closed (the caller drains it, or has left the loop).
Closed == orch = "LearnOne" /\ pc \in {"drain", "done"}

\* C20: in a batch of LearnOneDataItemAtATime, with maxAttemptsPerSession 0 or
\* more, attemptCh is closed only when every worker has finished, and once; bp
\* is replaced only when the channel is closed and drained; and every batch
\* that starts gets there: the workers finish, also when they send more
\* attempts than the buffer holds, and the collecting loop ends.
C20_BatchCompletes ==
    /\ [](Closed => (wg = 0 /\ \A w \in Workers : wk[w].pc = "done"))
    /\ [][/\ Closed => Closed'
          /\ last'.op = "LClose" => (~Closed /\ Closed')
          /\ (orch = "LearnOne" /\ pc # "start" /\ View(heap', bps'.bp) # View(heap, bps.bp))
                => (pc = "drain" /\ chan = <<>> /\ wg = 0)]_vars
    /\ (orch = "LearnOne" /\ pc = "collect") ~> (wg = 0)
    /\ (orch = "LearnOne" /\ pc = "collect") ~> (pc = "done")

\* A worker waits to send its attempt while the buffer is full with the other
\* worker's attempt: more attempts than the channel holds.
C20_Witness ==
    /\ orch = "LearnOne" /\ pc = "collect" /\ iter = 1
    /\ Len(chan) = LearnCap
    /\ wk["w1"].pc = "send" /\ wk["w2"].pc = "done"
    /\ wg = 1

(***************************************************************************)
(* Properties of the collecting loop of LearnOneDataItemAtATime.            *)
(***************************************************************************)
\* attemptCh is closed and drained: the loop over attemptCh has ended.
Collected == orch \in LearnOrchs /\ pc \in {"drain", "done"} /\ chan = <<>>

\* C21: when the loop over attemptCh has ended, the attempt bestBatchAttempt
\* points to has an Improvement that no attempt received in the batch exceeds.
C21_SelectedIsMaximal ==
    (Collected /\ bestAttempt.at # Nil) =>
        \A i \in 1..Len(bestAttempt.received) :
            bestAttempt.received[i].improvement <= bestAttempt.at.improvement

\* The first definition compiled with one loop variable per iteration selects
\* an attempt of maximal Improvement, and selects one when any was received.
C21_FirstPerIteration ==
    (Collected /\ orch = "LearnOne" /\ bestAttempt.perIteration) =>
        /\ bestAttempt.received # <<>> => bestAttempt.at # Nil
        /\ bestAttempt.at # Nil =>
              \A i \in 1..Len(bestAttempt.received) :
                  bestAttempt.received[i].improvement <= bestAttempt.at.improvement

\* The second definition does not depend on the loop variable alone: also with
\* one variable per iteration the selected attempt need not be maximal.
C21_SecondPerIteration ==
    (Collected /\ orch = "LearnOne2" /\ bestAttempt.perIteration /\ bestAttempt.at # Nil) =>
        \A i \in 1..Len(bestAttempt.received) :
            bestAttempt.received[i].improvement <= bestAttempt.at.improvement

(***************************************************************************)
(* Properties of performRandomModification.                                 *)
(***************************************************************************)
\* C22: the model an attempt returned by performRandomModification stores
\* (ModelJSON) is the graph that was evaluated for the attempt's metrics.
C22_StoredModelIsEvaluated ==
    orch = "LearnOne2" =>
        \A w \in Workers :
            wk[w].pc = "send" => Structure(wk[w].arg.json) = Structure(wk[w].arg.evaluated)

\* The graph the second definition commits is the graph its attempt was
\* evaluated on.
C22_CommittedWasEvaluated ==
    (orch = "LearnOne2" /\ last.op = "L2Commit" /\ last.kind = "adopted") =>
        Structure(View(heap, bps.bp)) = Structure(bestAttempt.at.evaluated)

\* The stored model is the serialization of bp taken before the modification.
C22_StoredModelIsOriginal ==
    (orch = "LearnOne2" /\ pc = "collect") =>
        \A w \in Workers : wk[w].pc = "send" => wk[w].arg.json = View(heap, bps.bp)

(***************************************************************************)
(* Properties of the isolated copy.                                         *)
(***************************************************************************)
\* C23: the copy a worker builds with SerializeToJSON and DeserializesFromJSON
\* into a new Blueprint computes, unmodified, the outputs the original graph
\* computes on the same sessions.
C23_CopyComputesSameOutputs ==
    [][(last'.op = "isolate" /\ ~last'.err) =>
          chan' = RunSessions(heap, bps.g, SessionSets[last'.target], 1, <<>>).outs]_vars

\* The copy computes the outputs of the original when every node of the graph
\* has the linear activation, and it holds the nodes, connections and ID
\* lists of the original.
C23_LinearCopySameOutputs ==
    [][(/\ last'.op = "isolate" /\ ~last'.err
        /\ \A id \in NeuronIDs(bps.g) :
              Deref(heap, bps.g, id).Type = "lstm" \/ Deref(heap, bps.g, id).Activation = "linear") =>
          chan' = RunSessions(heap, bps.g, SessionSets[last'.target], 1, <<>>).outs]_vars

(***************************************************************************)
(* Properties of the gate-weight vectors.                                   *)
(***************************************************************************)
\* The lstm nodes of the graph of handle x.
LSTMNodes(x) ==
    IF bps[x] = Nil THEN {}
    ELSE {id \in NeuronIDs(bps[x]) : Deref(heap, bps[x], id).Type = "lstm"}

\* C24: after any sequence of mutation operators each of the four gate-weight
\* vectors of every lstm node has as many entries as the node has connections.
C24_GatesSizedByFanIn ==
    \A x \in Handles : \A id \in LSTMNodes(x), gate \in Gates :
        Len(Deref(heap, bps[x], id).GateWeights[gate])
            = Len(Deref(heap, bps[x], id).Connections)

\* ProcessLSTMNeuron reads no gate weight past the end of a gate vector.
C24_NoReadPastEnd ==
    \A x \in Handles : \A id \in LSTMNodes(x) :
        ~GateIndexPanics(Deref(heap, bps[x], id),
                         InputValues(heap, bps[x], Deref(heap, bps[x], id)))

\* What holds: a successful InsertNeuronOfTypeBetweenInputsAndOutputs of
\* mutations.go leaves the new lstm node with gate vectors of the length of
\* its connections when the graph lists an input node.
C24_SizedAtInsertion ==
    (last.op = "insert" /\ last.kind = "lstm" /\ ~last.err /\ bps[last.on].InputNodes # <<>>) =>
        \A gate \in Gates :
            Len(Newest(heap, bps[last.on]).GateWeights[gate])
                = Len(Newest(heap, bps[last.on]).Connections)

\* Properties of the loop over the node table

\* The non-input nodes of the graph.
NonInputIDs == {id \in NeuronIDs(bps.g) : Deref(heap, bps.g, id).Type # "input"}

\* C25: a timestep of a forward pass that completes processes every non-input
\* node of the table, whatever the set of IDs is.
C25_EveryNodeProcessed ==
    (last.op = "Evaluate" /\ ~last.err /\ SessionSets[last.target] # <<>>)
        => Range(connCh) = NonInputIDs

\* C25: the nodes a timestep processes are processed once each, in ascending
\* order of ID.
C25_AscendingOnce ==
    last.op = "Evaluate" =>
        \A i, j \in 1..Len(connCh) : i < j => connCh[i] < connCh[j]

\* C25: when the IDs of the table are 1..n every non-input node is processed.
C25_ContiguousProcessed ==
    (last.op = "Evaluate" /\ ~last.err /\ SessionSets[last.target] # <<>>
        /\ NeuronIDs(bps.g) = 1..Cardinality(NeuronIDs(bps.g)))
        => Range(connCh) = NonInputIDs

\* Properties of the final softmax

\* C26: a forward pass over a graph without LSTM nodes, one of whose output
\* IDs has no node, completes without a panic.
C26_MissingOutputCompletes ==
    (last.op = "Evaluate" /\ SessionSets[last.target] # <<>> /\ MissingOutput
        /\ LSTMNodes("g") = {})
        => ~panicked

\* C26: a forward pass over a graph without LSTM nodes panics only when an
\* output ID has no node.
C26_AllPresentCompletes ==
    (last.op = "Evaluate" /\ panicked /\ LSTMNodes("g") = {}) => MissingOutput

\* C26: a forward pass completes when the output IDs without a node are the
\* last ones of OutputNodes and some output node exists.
C26_MissingLastCompletes ==
    (last.op = "Evaluate" /\ LSTMNodes("g") = {}
        /\ \E n \in 1..Len(bps.g.OutputNodes) :
               \A i \in 1..Len(bps.g.OutputNodes) : Exists(bps.g, bps.g.OutputNodes[i]) <=> i <= n)
        => ~panicked
\* Properties of the connection modifications of a batch

\* The weights of the connections the node holder has from the node source, in
\* the order of the holder's connection list.
WeightsOf(h, bp, holder, source) ==
    IF ~Exists(bp, holder) THEN <<>>
    ELSE LET conns == SelectSeq(Deref(h, bp, holder).Connections, LAMBDA c : c[1] = source)
         IN  [i \in 1..Len(conns) |-> conns[i][2]]

\* The pairs <<holder, source>> of the connections of the graph.
ConnectionSet(h, bp) ==
    {p \in NeuronIDs(bp) \X IDs : WeightsOf(h, bp, p[1], p[2]) # <<>>}

\* Worker w applies the modification of the given type to its copy and goes on
\* to evaluate it.
Modifies(w, type) ==
    wk[w].pc = "modify" /\ wk[w].arg.type = type /\ wk'[w].pc = "levaluate"

\* C27: an adjust_weight modification leaves the copy with the connections it
\* had, exactly one of them for the selected pair, carrying the new weight.
C27_AdjustKeepsConnectionSet ==
    [][\A w \in Workers :
          Modifies(w, "adjust_weight") =>
              /\ ConnectionSet(heap', bps'[w]) = ConnectionSet(heap, bps[w])
              /\ WeightsOf(heap', bps'[w], wk[w].arg.a, wk[w].arg.b) = <<wk[w].arg.weight>>]_vars

\* C27: an adjust_weight modification leaves the selected connection as it was
\* and appends a connection with the new weight to the node the selected
\* connection comes from.
C27_AdjustAppendsReversed ==
    [][\A w \in Workers :
          (Modifies(w, "adjust_weight") /\ wk[w].arg.a # wk[w].arg.b) =>
              /\ WeightsOf(heap', bps'[w], wk[w].arg.a, wk[w].arg.b)
                    = WeightsOf(heap, bps[w], wk[w].arg.a, wk[w].arg.b)
              /\ WeightsOf(heap', bps'[w], wk[w].arg.b, wk[w].arg.a)
                    = Append(WeightsOf(heap, bps[w], wk[w].arg.b, wk[w].arg.a), wk[w].arg.weight)]_vars

\* C28: a remove_connection modification removes the selected connection from
\* the copy and leaves every other connection as it was.
C28_RemovesSelected ==
    [][\A w \in Workers :
          Modifies(w, "remove_connection") =>
              /\ WeightsOf(heap', bps'[w], wk[w].arg.a, wk[w].arg.b) = <<>>
              /\ \A p \in (IDs \X IDs) \ {<<wk[w].arg.a, wk[w].arg.b>>} :
                     WeightsOf(heap', bps'[w], p[1], p[2]) = WeightsOf(heap, bps[w], p[1], p[2])]_vars

\* C28: a remove_connection modification leaves the selected connection in the
\* copy and removes the connections in the opposite direction.
C28_RemovesReversed ==
    [][\A w \in Workers :
          (Modifies(w, "remove_connection") /\ wk[w].arg.a # wk[w].arg.b) =>
              /\ WeightsOf(heap', bps'[w], wk[w].arg.a, wk[w].arg.b)
                    = WeightsOf(heap, bps[w], wk[w].arg.a, wk[w].arg.b)
              /\ WeightsOf(heap', bps'[w], wk[w].arg.b, wk[w].arg.a) = <<>>]_vars
(***************************************************************************)
(* SpecRandomNAS: one run of SimpleNASWithRandomConnections or of           *)
(* ParallelSimpleNASWithRandomConnections.  The sequential search has no    *)
(* workers: wk is empty there.                                              *)
(***************************************************************************)
InitRandomNAS ==
    \/ InitSeq /\ orch = "SimpleNASWithRandomConnections"
    \/ InitPar /\ orch = "ParallelNAS"

NextRandomNAS ==
    \/ RStart
    \/ \E kind \in NasKinds, s \in InsertStreams, e \in IDs \X (1..MaxID),
          candM \in ClimbOutcomes, curM \in ClimbOutcomes, m \in Outcomes, v \in EvalValues :
          RAttempt(kind, s, e, candM, curM, m, v)
    \/ ParStart
    \/ ParSpawn
    \/ \E w \in DOMAIN wk : WDeserialize(w)
    \/ \E w \in DOMAIN wk, kind \in NasKinds, s \in InsertStreams : WInsert(w, kind, s)
    \/ \E w \in DOMAIN wk : \E e \in ClimbChoices(w), candM \in ClimbOutcomes,
          curM \in ClimbOutcomes, v \in EvalValues : WClimb(w, e, 1, candM, curM, v)
    \/ \E w \in DOMAIN wk, m \in Outcomes, v \in EvalValues : WEvaluate(w, m, v)
    \/ ParWait
    \/ ParReduce
    \/ ParFinish

SpecRandomNAS == InitRandomNAS /\ [][NextRandomNAS]_vars

\* The step ends a round of one of the two searches.
RoundEnds == last'.op \in {"RAttempt", "ParReduce"}

\* The step changes the committed best graph or its metrics.
BestReplaced == bestM' # bestM \/ View(heap', bps'.best) # View(heap, bps.best)

Unweighted(view) ==
    [Structure(view) EXCEPT !.Neurons =
        [id \in IDs |->
            IF @[id] = NoNeuron THEN NoNeuron
            ELSE [@[id] EXCEPT !.Connections = [i \in 1..Len(@) |-> @[i][1]]]]]

\* The positions <<node, connection index>> where the weights of two graphs
\* with the same connections differ, and those where they differ by more than
\* maxWeightChange.
WeightChanges(a, b, least) ==
    {e \in IDs \X (1..MaxID) :
        /\ a.Neurons[e[1]] # NoNeuron /\ e[2] <= Len(a.Neurons[e[1]].Connections)
        /\ Abs(a.Neurons[e[1]].Connections[e[2]][2] - b.Neurons[e[1]].Connections[e[2]][2])
              > least}

\* The candidate differs from bp in no node, connection, bias, gate weight or
\* activation, and in the weight of at most one connection, which belongs to
\* the node picked, a node that is no input node, and changes by at most
\* maxWeightChange.
OneWeightPerturbed ==
    LET cand == View(heap, bps.c)
        cur == View(heap, bps.bp)
    IN  /\ Unweighted(cand) = Unweighted(cur)
        /\ WeightChanges(cand, cur, MaxWeightChange) = {}
        /\ Cardinality(WeightChanges(cand, cur, 0)) <= 1
        /\ \A e \in WeightChanges(cand, cur, 0) : e[1] = last.target
        /\ ~isInputNode(bps.bp, last.target)
        /\ cur.Neurons[last.target].Type # "input"

\* C30: the candidate HillClimbWeightUpdate evaluates is bp with the weight of
\* one connection of a non-input node changed by a delta of at most 0.1 in
\* absolute value; and the steps of a call that returns false leave every
\* weight, bias and connection of bp as it was.
C30_OneWeightAndFrame ==
    [][/\ (last'.op = "HEvaluate" /\ ~last'.err) => OneWeightPerturbed'
       /\ (last'.op = "HEvaluate" \/ (last'.op = "HDecide" /\ last'.err)) =>
             Structure(View(heap', bps'.bp)) = Structure(View(heap, bps.bp))]_vars

\* HillClimbWeightUpdate has evaluated a candidate whose node 3, which has two
\* connections, has one weight raised by 0.1 and the other as in bp.
C30_Witness ==
    /\ last.op = "HEvaluate" /\ ~last.err /\ last.target = 3
    /\ Len(Deref(heap, bps.bp, 3).Connections) = 2
    /\ Deref(heap, bps.c, 3).Connections[1][2] = Deref(heap, bps.bp, 3).Connections[1][2]
    /\ Deref(heap, bps.c, 3).Connections[2][2]
          = Deref(heap, bps.bp, 3).Connections[2][2] + MaxWeightChange
(***************************************************************************)
(* SpecClimbFair: a series of HillClimbWeightUpdate calls, with a scheduler *)
(* that lets the call go on and a random source that, drawing again and     *)
(* again, comes to draw a neuron the selection loop can use when there is   *)
(* one.                                                                     *)
(***************************************************************************)
InitClimb == InitSeq /\ orch = "HillClimb"

\* The steps by which a call leaves the selection loop or returns early.
HEvaluateStep ==
    \E e \in IDs \X (1..MaxID), delta \in ClimbDeltas, candM \in Outcomes,
       curM \in ClimbOutcomes, v \in EvalValues : HEvaluate(e, delta, candM, curM, v)

NextClimb ==
    \/ HEvaluateStep
    \/ \E id \in IDs : HRetry(id)
    \/ HDecide

\* HEvaluateStep can be taken: the clone fails, or the loop has a neuron to draw.
CanLeaveLoop ==
    /\ orch = "HillClimb" /\ pc \in {"start", "loop"} /\ iter < MaxIter
    /\ HasRoom(heap, CloneCost(bps.bp))
    /\ ~Marshalable(heap, bps.bp) \/ Eligible(heap, bps.bp) # {}

\* The goroutine running the call keeps running, and rand.Intn does not avoid
\* an index for ever: a draw that lets the loop break is made when there is
\* one (weak fairness of HEvaluateStep, written out with its enabling
\* condition CanLeaveLoop).
ClimbFairness ==
    /\ []<>~CanLeaveLoop \/ []<><<HEvaluateStep>>_vars
    /\ WF_vars(\E id \in IDs : HRetry(id))
    /\ WF_vars(HDecide)

SpecClimbFair == InitClimb /\ [][NextClimb]_vars /\ ClimbFairness

\* The call that is number n + 1 of the series is to be made or is running.
InCall(n) == orch = "HillClimb" /\ iter = n /\ n < MaxIter

\* C31: every call of HillClimbWeightUpdate on a non-empty graph returns.
C31_CallReturns ==
    \A n \in 0..(MaxIter - 1) : InCall(n) ~> (iter > n)

\* C31: a call of HillClimbWeightUpdate returns when the clone fails or some
\* neuron that is no input node has a connection.
C31_ReturnsWhenEligible ==
    \A n \in 0..(MaxIter - 1) :
        (InCall(n) /\ (~Marshalable(heap, bps.bp) \/ Eligible(heap, bps.bp) # {})) ~> (iter > n)

\* C31: on a graph where no neuron that is no input node has a connection the
\* call never returns.
C31_SpinsWithoutEligible ==
    [][(orch = "HillClimb" /\ Marshalable(heap, bps.bp) /\ Eligible(heap, bps.bp) = {})
          => iter' = iter]_vars
(***************************************************************************)
(* SpecRefine: one run of TargetedMicroRefinement on the Blueprint bp.  The *)
(* accuracies of an evaluation are drawn from Outcomes and the error of a   *)
(* sample from SampleErrors.  bestM holds lastExactAcc, lastGenerousAcc and *)
(* lastForgiveAcc, committed holds noImprovementCount, wg the samples of    *)
(* the subset still to refine, nOps the trial counter, bestAttempt the      *)
(* locals initialError and improved of refineSampleWeights, and snap the    *)
(* graph as it was when the iteration began.                                *)
(***************************************************************************)
\* the improvementThreshold argument
ImprovementThreshold == 60

\* the sampleSubsetSize argument
SampleSubsetSize == 2

\* the connectionTrialsPerSample argument
ConnectionTrials == 2

\* values of rand.NormFloat64() * 0.01, in hundredths of a hundredth
RefineDeltas == {0, 1}

\* values of sampleError
SampleErrors == {10, 20}

Refining(initialError, improved) == [initialError |-> initialError, improved |-> improved]

InitRefine ==
    /\ orch = "Refine"
    /\ \E sh \in {TryShape, BareShape} :
          /\ heap = ShapeHeap(sh)
          /\ bps = [bp |-> ShapeBlueprint(sh)]
    /\ last = Last("new", "bp", FALSE, "", 0)
    /\ nOps = 0
    /\ pc = "start"
    /\ wk = <<>> /\ chan = <<>> /\ connCh = <<>> /\ bestAttempt = Nil /\ wg = 0
    /\ iter = 0 /\ committed = 0 /\ bestM = <<>> /\ snap = Nil /\ panicked = FALSE

\* targetedMicroRefinement.go lines 21-45: evaluate bp, return when the exact
\* accuracy is beyond the threshold or no near-miss sample is found.
FStart(m, v, found) ==
    /\ orch = "Refine" /\ pc = "start"
    /\ heap' = Evaluated(heap, bps.bp, v)
    /\ bestM' = m
    /\ IF m[1] > ImprovementThreshold \/ ~found
       THEN pc' = "done" /\ iter' = iter
       ELSE pc' = "iterate" /\ iter' = 1
    /\ last' = Last("FStart", "bp", ~found, "", 0)
    /\ UNCHANGED <<bps, nOps, orch, wk, chan, connCh, bestAttempt, wg, committed, snap, panicked>>

\* lines 47-50: an iteration begins and draws its subset of n samples.
FIterate(n) ==
    /\ orch = "Refine" /\ pc = "iterate"
    /\ wg' = n
    /\ snap' = View(heap, bps.bp)
    /\ pc' = "sample"
    /\ last' = Last("FIterate", "bp", FALSE, "", 0)
    /\ UNCHANGED <<heap, bps, nOps, orch, wk, chan, connCh, bestAttempt, iter, committed, bestM,
                   panicked>>

\* lines 148-154: refineSampleWeights measures the error of the sample and
\* returns when there is no critical neuron.
FSample(initialError, v) ==
    /\ orch = "Refine" /\ pc = "sample" /\ wg > 0
    /\ heap' = Evaluated(heap, bps.bp, v)
    /\ bestAttempt' = Refining(initialError, FALSE)
    /\ nOps' = 0
    /\ IF bps.bp.OutputNodes = <<>>
       THEN pc' = "sample" /\ wg' = wg - 1
       ELSE pc' = "trials" /\ wg' = wg
    /\ last' = Last("FSample", "bp", FALSE, "", 0)
    /\ UNCHANGED <<bps, orch, wk, chan, connCh, iter, committed, bestM, snap, panicked>>

\* A trial that leaves the weight at oldWeight - delta when neither sign
\* lowers the error.
TrialNoRevert(oldWeight, delta, initialError, errPlus, errMinus) ==
    IF errPlus < initialError THEN [weight |-> oldWeight + delta, error |-> errPlus, kind |-> "plus"]
    ELSE IF errMinus < initialError
         THEN [weight |-> oldWeight - delta, error |-> errMinus, kind |-> "minus"]
         ELSE [weight |-> oldWeight - delta, error |-> initialError, kind |-> "revert"]

\* lines 167-187: the weight and the lowest error a trial leaves.
Trial(oldWeight, delta, initialError, errPlus, errMinus) ==
    IF errPlus < initialError THEN [weight |-> oldWeight + delta, error |-> errPlus, kind |-> "plus"]
    ELSE IF errMinus < initialError
         THEN [weight |-> oldWeight - delta, error |-> errMinus, kind |-> "minus"]
         ELSE [weight |-> oldWeight, error |-> initialError, kind |-> "revert"]

\* lines 156-188: one trial of refineSampleWeights on connection cIndex of the
\* critical neuron nID.
FTrial(nID, cIndex, delta, errPlus, errMinus, v) ==
    /\ orch = "Refine" /\ pc = "trials" /\ nOps < ConnectionTrials
    /\ nID \in Range(bps.bp.OutputNodes)
    /\ IF ~Exists(bps.bp, nID) \/ Deref(heap, bps.bp, nID).Connections = <<>>
       THEN /\ last' = Last("FTrial", "bp", TRUE, "skip", nID)
            /\ UNCHANGED <<heap, bestAttempt>>
       ELSE /\ cIndex <= Len(Deref(heap, bps.bp, nID).Connections)
            /\ LET oldWeight == Deref(heap, bps.bp, nID).Connections[cIndex][2]
                   tr == Trial(oldWeight, delta, bestAttempt.initialError, errPlus, errMinus)
               IN  /\ heap' = Evaluated([heap EXCEPT ![bps.bp.Neurons[nID]].Connections[cIndex][2]
                                                        = tr.weight], bps.bp, v)
                   /\ bestAttempt' = Refining(tr.error, bestAttempt.improved \/ tr.kind # "revert")
                   /\ last' = Last("FTrial", "bp", tr.kind = "revert", tr.kind, nID)
    /\ nOps' = nOps + 1
    /\ UNCHANGED <<bps, orch, pc, wk, chan, connCh, wg, iter, committed, bestM, snap, panicked>>

\* lines 190-193: refineSampleWeights returns after the last trial.
FEndSample ==
    /\ orch = "Refine" /\ pc = "trials" /\ nOps = ConnectionTrials
    /\ wg' = wg - 1
    /\ pc' = "sample"
    /\ last' = Last("FEndSample", "bp", ~bestAttempt.improved, "", 0)
    /\ UNCHANGED <<heap, bps, nOps, orch, wk, chan, connCh, bestAttempt, iter, committed, bestM,
                   snap, panicked>>

\* lines 65-79: improvement without regression
Improvement(new, lastAcc) ==
    /\ new[1] >= lastAcc[1] /\ new[2] >= lastAcc[2] /\ new[3] >= lastAcc[3]
    /\ new[1] > lastAcc[1] \/ new[2] > lastAcc[2] \/ new[3] > lastAcc[3]

\* lines 56-98: the iteration ends: evaluate bp on all sessions, record an
\* improvement, stop at the threshold, after six iterations without
\* improvement or after maxIterations.
FEvaluate(m, v) ==
    /\ orch = "Refine" /\ pc = "sample" /\ wg = 0
    /\ heap' = Evaluated(heap, bps.bp, v)
    /\ LET improvement == Improvement(m, bestM)
           noImprovementCount == IF improvement THEN 0 ELSE committed + 1
       IN  /\ bestM' = IF improvement THEN m ELSE bestM
           /\ committed' = noImprovementCount
           /\ pc' = IF m[1] >= ImprovementThreshold \/ noImprovementCount > 5 \/ iter >= MaxIter
                    THEN "done" ELSE "iterate"
           /\ last' = Last("FEvaluate", "bp", ~improvement, "", 0)
    /\ iter' = iter + 1
    /\ UNCHANGED <<bps, nOps, orch, wk, chan, connCh, bestAttempt, wg, snap, panicked>>

NextRefine ==
    \/ \E m \in Outcomes, v \in EvalValues, found \in BOOLEAN : FStart(m, v, found)
    \/ \E n \in 1..SampleSubsetSize : FIterate(n)
    \/ \E initialError \in SampleErrors, v \in EvalValues : FSample(initialError, v)
    \/ \E nID \in IDs, cIndex \in 1..MaxID, delta \in RefineDeltas,
          errPlus \in SampleErrors, errMinus \in SampleErrors, v \in EvalValues :
          FTrial(nID, cIndex, delta, errPlus, errMinus, v)
    \/ FEndSample
    \/ \E m \in Outcomes, v \in EvalValues : FEvaluate(m, v)

SpecRefine == InitRefine /\ [][NextRefine]_vars

\* C32: when an iteration of TargetedMicroRefinement ends without an
\* improvement of the accuracies over all sessions, the weights, biases and
\* connections of bp are those it had when the iteration began.
C32_ChangeOnlyIfImproved ==
    (orch = "Refine" /\ last.op = "FEvaluate" /\ last.err)
        => Structure(View(heap, bps.bp)) = Structure(snap)

\* C32: an iteration changes nothing of bp but weights of connections.
C32_OnlyWeightsChange ==
    (orch = "Refine" /\ last.op = "FEvaluate")
        => Unweighted(View(heap, bps.bp)) = Unweighted(snap)

\* C33: a trial of refineSampleWeights changes no weight but that of one
\* connection of the neuron it drew, lowers the lowest error seen when it
\* changes that weight, and never raises the lowest error seen.
C33_KeptOnlyIfLower ==
    [][last'.op = "FTrial" =>
          /\ Unweighted(View(heap', bps'.bp)) = Unweighted(View(heap, bps.bp))
          /\ Cardinality(WeightChanges(View(heap', bps'.bp), View(heap, bps.bp), 0)) <= 1
          /\ \A e \in WeightChanges(View(heap', bps'.bp), View(heap, bps.bp), 0) :
                e[1] = last'.target
          /\ WeightChanges(View(heap', bps'.bp), View(heap, bps.bp), 0) # {}
                => bestAttempt'.initialError < bestAttempt.initialError
          /\ bestAttempt'.initialError <= bestAttempt.initialError
          /\ last'.err => bestAttempt'.initialError = bestAttempt.initialError]_vars

\* A trial has kept the weight oldWeight - delta of the second connection of
\* neuron 3 after the error fell to 10.
C33_Witness ==
    /\ orch = "Refine" /\ last.op = "FTrial" /\ last.kind = "minus" /\ last.target = 3
    /\ bestAttempt = Refining(10, TRUE)
    /\ Deref(heap, bps.bp, 3).Connections[2][2] # snap.Neurons[3].Connections[2][2]
    /\ Deref(heap, bps.bp, 3).Connections[1][2] = snap.Neurons[3].Connections[1][2]
(***************************************************************************)
(* SpecDecile: isDecileConsistent is called on two maps.  snap holds the    *)
(* arguments, connCh the order in which the call ranges over `expected`,    *)
(* and last.err tells that the call returned false.                         *)
(***************************************************************************)
\* the keys of the maps: the output nodes
DecileKeys == {2, 3}

\* predicted and expected values, as multiples of 1/Scale
PredictedValues == {0, 5, 50, 100}

ExpectedValues == {0, 100}

\* The maps with keys in K and values in V.
Maps(K, V) == UNION {[S -> V] : S \in SUBSET K}

\* The orders in which a range statement can visit the keys of map f.
RangeOrders(f) ==
    {q \in [1..Cardinality(DOMAIN f) -> DOMAIN f] : \A i, j \in DOMAIN q : i # j => q[i] # q[j]}

InitDecile ==
    /\ orch = "isDecileConsistent"
    /\ \E predicted \in Maps(DecileKeys, PredictedValues), expected \in Maps(DecileKeys, ExpectedValues) :
          snap = [predicted |-> predicted, expected |-> expected]
    /\ heap = [r \in Refs |-> NoNeuron] /\ bps = <<>>
    /\ last = Last("new", "", FALSE, "", 0)
    /\ nOps = 0
    /\ pc = "call"
    /\ wk = <<>> /\ chan = <<>> /\ connCh = <<>> /\ bestAttempt = Nil /\ wg = 0
    /\ iter = 0 /\ committed = 0 /\ bestM = <<>> /\ panicked = FALSE

\* eval.go lines 110-135: the call ranges over `expected` in the given order.
DecileCall(order) ==
    /\ orch = "isDecileConsistent" /\ pc = "call"
    /\ order \in RangeOrders(snap.expected)
    /\ connCh' = order
    /\ last' = Last("isDecileConsistent", "", ~DecileLoop(snap.predicted, snap.expected, order, 1, 0),
                    "", 0)
    /\ pc' = "returned"
    /\ UNCHANGED <<heap, bps, nOps, orch, wk, chan, bestAttempt, wg, iter, committed, bestM, snap,
                   panicked>>

NextDecile == \E order \in RangeOrders(snap.expected) : DecileCall(order)

SpecDecile == InitDecile /\ [][NextDecile]_vars

\* floor(error / 0.1), capped at 9
DecileOf(predictedValue, expectedValue) ==
    IF (Abs(predictedValue - expectedValue) * 10) \div Scale > 9 THEN 9
    ELSE (Abs(predictedValue - expectedValue) * 10) \div Scale

\* Every expected key has a predicted value and all errors are in one decile.
SameDecile(predicted, expected) ==
    /\ DOMAIN expected \subseteq DOMAIN predicted
    /\ \A a, b \in DOMAIN expected :
          DecileOf(predicted[a], expected[a]) = DecileOf(predicted[b], expected[b])

\* C34: isDecileConsistent returns true exactly when every expected key has a
\* predicted value and all the absolute errors fall in the same decile.
C34_TrueIffSameDecile ==
    (orch = "isDecileConsistent" /\ pc = "returned")
        => (~last.err <=> SameDecile(snap.predicted, snap.expected))

\* C34: the result of isDecileConsistent does not depend on the order in which
\* the outputs are compared.
C34_OrderIndependent ==
    (orch = "isDecileConsistent" /\ pc = "returned")
        => \A order \in RangeOrders(snap.expected) :
              DecileLoop(snap.predicted, snap.expected, order, 1, 0) = ~last.err

\* C34: isDecileConsistent returns true when every expected key has a predicted
\* value and all the absolute errors fall in the same decile.
C34_TrueWhenSameDecile ==
    (orch = "isDecileConsistent" /\ pc = "returned" /\ SameDecile(snap.predicted, snap.expected))
        => ~last.err
\* Node id is reachable from a node of InputNodes by following connections
\* from source to target: it is such a node or has a path back to one.
ReachableFromInput(h, bp, id) == id \in Range(bp.InputNodes) \/ HasPathToInput(h, bp, id)

AllOutputsReachable(h, bp) ==
    \A k \in 1..Len(bp.OutputNodes) : ReachableFromInput(h, bp, bp.OutputNodes[k])

\* C35: ValidateConnections returns without failing, and returns true exactly
\* when every node of OutputNodes is reachable from a node of InputNodes by
\* following connections from source to target.
C35_TrueIffReachable ==
    last.op = "ValidateConnections"
        => /\ last.kind # "panic"
           /\ ~last.err <=> AllOutputsReachable(heap, bps[last.on])

\* C35: ValidateConnections does not fail, also on graphs with connections
\* whose source is not in the node table.
C35_NeverFails == last.op = "ValidateConnections" => last.kind # "panic"

\* C35: ValidateConnections returns true exactly when every node of OutputNodes
\* is an input node or a node from which an input node is reached by
\* following connections from target to source, provided every ID reached
\* from the inputs in that direction is in the node table.
C35_TrueIffUpstreamOfInput ==
    (last.op = "ValidateConnections" /\ last.kind # "panic")
        => (~last.err <=>
               \A k \in 1..Len(bps[last.on].OutputNodes) :
                   \E i \in Range(bps[last.on].InputNodes) :
                       bps[last.on].OutputNodes[k] \in BackClosure(heap, bps[last.on], {i}))
\* Every graph the call holds can be serialized, so that no clone fails.
AllMarshalable == \A x \in DOMAIN bps : bps[x] # Nil => Marshalable(heap, bps[x])

\* C36: EvolutionaryTrain does not end in a fatal error, for every
\* populationSize >= 1 and generations >= 0, on graphs that can be cloned.
C36_CompletesForEverySize ==
    (orch = "EvolutionaryTrain" /\ AllMarshalable) => ~panicked

\* C36: EvolutionaryTrain does not end in a fatal error when populationSize is
\* at least 2 or generations is 0, on graphs that can be cloned.
C36_CompletesFromTwo ==
    (orch = "EvolutionaryTrain" /\ AllMarshalable
        /\ (snap.populationSize >= 2 \/ snap.generations = 0)) => ~panicked

\* C36: with populationSize = 1 and generations >= 1 no generation is completed.
C36_OneNeverBreeds ==
    (orch = "EvolutionaryTrain" /\ snap.populationSize = 1 /\ snap.generations >= 1)
        => (committed = 0 /\ pc # "done")
\* Every worker of TryAddConnections has finished: wg.Wait() can return or
\* has returned.
WorkersFinished == orch = "TryAdd" /\ pc \in {"twait", "replace", "done"} /\ wg = 0

\* The highest improvement of the attempts evaluated, 0 without an attempt.
MaxTried == SetMax({0} \cup {chan[i].improvement : i \in DOMAIN chan})

C38_TrackedEqualsCommitted ==
    last.op = "XAttempt" => \A i \in SelectedMetrics : bestM[i] = bestAttempt.m[i]

\* C38: at the end of every round the tracked best value of every selected
\* metric is at least the value the model now in *bp obtained.
C38_TrackedAtLeastCommitted ==
    last.op = "XAttempt" => \A i \in SelectedMetrics : bestM[i] >= bestAttempt.m[i]
\* InsertNeuronWithRandomConnections has just returned nil on the graph of
\* handle last'.on.
InsertedRandom == last'.op = "insertRandom" /\ ~last'.err

\* The IDs InsertNeuronWithRandomConnections has just added to the node table.
NewNeuronIDs == NeuronIDs(bps'[last'.on]) \ NeuronIDs(bps[last'.on])

\* C39: after InsertNeuronWithRandomConnections no connection of the new
\* neuron has the neuron's own ID as source: every source is a neuron that
\* was in the table before the insertion.
C39_NoSelfSource ==
    [][InsertedRandom =>
          \A id \in NewNeuronIDs :
              Sources(heap', bps'[last'.on], id) \subseteq NeuronIDs(bps[last'.on])]_vars

\* C39: after InsertNeuronWithRandomConnections every source of a connection of
\* the new neuron is in the node table: a neuron that was there before the
\* insertion or the new neuron itself.
C39_SourcesInTable ==
    [][InsertedRandom =>
          \A id \in NewNeuronIDs :
              Sources(heap', bps'[last'.on], id) \subseteq NeuronIDs(bps'[last'.on])]_vars
====
